---- MODULE Spec2Model ----
(***************************************************************************)
(* Model of the Makefile analyzer (makefile_analyzer.py) and of the        *)
(* variable expansion engine (variable_expander.py) of vp-builder.         *)
(*                                                                         *)
(* Text is modelled as a sequence of one-character strings, so that the    *)
(* string operations of the source (find, split, strip, replace, regular   *)
(* expression scans, f-string formatting) are computed, not assumed.       *)
(***************************************************************************)
EXTENDS Integers, Sequences, FiniteSets, TLC

VARIABLES
    \* ---- MakefileAnalysis / MakefileAnalyzer (makefile_analyzer.py) ----
    targets,            \* analysis.targets: name -> MakefileTarget
    target_order,       \* insertion order of the keys of analysis.targets
    pattern_rules,      \* analysis.pattern_rules
    dep_lists,          \* the dependency list objects (targets refer to them by index)
    variables,          \* analysis.variables
    includes,           \* analysis.includes
    detected_tools,     \* analysis.detected_tools
    current_target,     \* local of _parse_makefile
    in_recipe,          \* local of _parse_makefile
    in_define,          \* self._in_define
    define_var,         \* self._define_var
    conditional_stack,  \* self._conditional_stack
    full_line,          \* the logical line handled by the last loop iteration
    lines_read,         \* number of logical lines consumed so far
    parse_fault,        \* an exception escaped _parse_makefile
    \* ---- flow tracing (makefile_analyzer.py) ----
    has_install_target,
    has_uninstall_target,
    install_flow,
    uninstall_flow,
    flow_pc,            \* position of analyze(): "parse", "identify", "trace_install", ...
    trace_kind,         \* which flow list _trace_dependencies works on
    trace_stack,        \* activations of _trace_dependencies
    visited,            \* the visited set passed down _trace_dependencies
    \* ---- VariableExpander (variable_expander.py) ----
    self_variables,     \* self.variables
    environment,        \* self.environment
    expansion_cache,    \* self.expansion_cache: key -> VariableExpansion
    recursion_stack,    \* self.recursion_stack
    frames,             \* activations of expand(), innermost last
    call,               \* arguments of the top-level expand() call made last
    returned,           \* what that call returned; None while it is running
    calls_made,         \* number of top-level expand() calls so far
    stored_by,          \* history: key -> arguments of the call that stored the entry
    environment_argument, \* the environment argument of VariableExpander(...)
    process_environment,  \* os.environ of the process that constructs the engine
    \* ---- expansion of all targets (both files) ----
    batch,              \* locals of expand_all_targets: position, target_results, results
    variable_expansion_results, \* analysis.variable_expansion_results
    expansion_summary   \* analysis.expansion_summary

parser_vars == <<targets, target_order, pattern_rules, dep_lists, variables,
                 includes, detected_tools, current_target, in_recipe, in_define,
                 define_var, conditional_stack, full_line, lines_read, parse_fault>>
flow_vars == <<has_install_target, has_uninstall_target, install_flow,
               uninstall_flow, flow_pc, trace_kind, trace_stack, visited>>
expander_vars == <<self_variables, environment, expansion_cache, recursion_stack,
                   frames, call, returned, calls_made, stored_by>>
batch_vars == <<batch, variable_expansion_results, expansion_summary>>
construction_vars == <<environment_argument, process_environment>>
vars == <<parser_vars, flow_vars, expander_vars, batch_vars, construction_vars>>

(***************************************************************************)
(* Python values                                                           *)
(***************************************************************************)
\* Python's None; no text equals it because text elements are single characters.
None == <<"NoneType">>

SP == " "
TAB == "\t"
NL == "\n"
Whitespace == {SP, TAB, NL}

UpperLetters == {"A","B","C","D","E","F","G","H","I","J","K","L","M",
                 "N","O","P","Q","R","S","T","U","V","W","X","Y","Z"}
LowerLetters == {"a","b","c","d","e","f","g","h","i","j","k","l","m",
                 "n","o","p","q","r","s","t","u","v","w","x","y","z"}
DigitChars == {"0","1","2","3","4","5","6","7","8","9"}
\* \w of the regular expressions
WordChars == UpperLetters \cup LowerLetters \cup DigitChars \cup {"_"}

UpperSeq == <<"A","B","C","D","E","F","G","H","I","J","K","L","M",
              "N","O","P","Q","R","S","T","U","V","W","X","Y","Z">>
LowerSeq == <<"a","b","c","d","e","f","g","h","i","j","k","l","m",
              "n","o","p","q","r","s","t","u","v","w","x","y","z">>

\* str.lower() on one character
LowerChar(c) ==
    IF c \in UpperLetters
    THEN LowerSeq[CHOOSE i \in 1..26 : UpperSeq[i] = c]
    ELSE c

Lower(s) == [i \in 1..Len(s) |-> LowerChar(s[i])]

(***************************************************************************)
(* Python str operations on character sequences                            *)
(***************************************************************************)
\* s[i:] with 1-based i
From(s, i) == SubSeq(s, i, Len(s))

\* s.startswith(sub, i-1)
StartsWithAt(s, sub, i) ==
    /\ i >= 1
    /\ i + Len(sub) - 1 <= Len(s)
    /\ SubSeq(s, i, i + Len(sub) - 1) = sub

StartsWith(s, sub) == StartsWithAt(s, sub, 1)

EndsWith(s, sub) == Len(sub) <= Len(s) /\ SubSeq(s, Len(s) - Len(sub) + 1, Len(s)) = sub

\* s.find(sub) + 1: the 1-based position of the first occurrence, 0 if none
Find(s, sub) ==
    LET hits == {i \in 1..Len(s) : StartsWithAt(s, sub, i)}
    IN IF hits = {} THEN 0 ELSE CHOOSE i \in hits : \A j \in hits : i <= j

\* s.rfind(sub) + 1
RFind(s, sub) ==
    LET hits == {i \in 1..Len(s) : StartsWithAt(s, sub, i)}
    IN IF hits = {} THEN 0 ELSE CHOOSE i \in hits : \A j \in hits : i >= j

\* sub in s  (sub not empty)
Contains(s, sub) == Find(s, sub) # 0

\* s.split(sep, 1)
Split1(s, sep) ==
    LET p == Find(s, sep)
    IN IF p = 0 THEN <<s>>
       ELSE <<SubSeq(s, 1, p - 1), From(s, p + Len(sep))>>

\* s.lstrip(), s.rstrip(), s.strip()
RECURSIVE LStrip(_)
LStrip(s) == IF s # <<>> /\ Head(s) \in Whitespace THEN LStrip(Tail(s)) ELSE s

RECURSIVE RStrip(_)
RStrip(s) ==
    IF s # <<>> /\ s[Len(s)] \in Whitespace THEN RStrip(SubSeq(s, 1, Len(s) - 1)) ELSE s

Strip(s) == LStrip(RStrip(s))

\* s.lstrip('#')
RECURSIVE LStripChar(_, _)
LStripChar(s, c) == IF s # <<>> /\ Head(s) = c THEN LStripChar(Tail(s), c) ELSE s

\* s.split(): the whitespace-separated words of s
RECURSIVE SplitWs(_)
SplitWs(s) ==
    LET t == LStrip(s)
    IN IF t = <<>> THEN <<>>
       ELSE LET ends == {i \in 1..Len(t) : t[i] \in Whitespace}
                e == IF ends = {} THEN Len(t) + 1
                     ELSE CHOOSE i \in ends : \A j \in ends : i <= j
            IN <<SubSeq(t, 1, e - 1)>> \o SplitWs(From(t, e))

\* s.replace(old, new)  (old not empty)
RECURSIVE Replace(_, _, _)
Replace(s, old, new) ==
    LET p == Find(s, old)
    IN IF p = 0 THEN s
       ELSE SubSeq(s, 1, p - 1) \o new \o Replace(From(s, p + Len(old)), old, new)

\* sep.join(parts)
RECURSIVE Join(_, _)
Join(parts, sep) ==
    IF parts = <<>> THEN <<>>
    ELSE IF Len(parts) = 1 THEN parts[1]
    ELSE parts[1] \o sep \o Join(Tail(parts), sep)

\* concatenation of a sequence of texts
RECURSIVE Cat(_)
Cat(parts) == IF parts = <<>> THEN <<>> ELSE Head(parts) \o Cat(Tail(parts))

\* the elements of a sequence
Range(s) == {s[i] : i \in 1..Len(s)}

\* str(n) for a natural number n
RECURSIVE NumStr(_)
NumStr(n) ==
    LET d == <<"0","1","2","3","4","5","6","7","8","9">>[(n % 10) + 1]
    IN IF n < 10 THEN <<d>> ELSE NumStr(n \div 10) \o <<d>>


(***************************************************************************)
(* makefile_analyzer.py: data model                                        *)
(***************************************************************************)
\* MakefileTarget(name=..., dependencies=<list object deps_id>, ...)
MakefileTarget(name, deps_id, is_phony, is_pattern, is_double_colon) ==
    [name |-> name, dependencies |-> deps_id, commands |-> <<>>,
     description |-> None, is_phony |-> is_phony, is_pattern_rule |-> is_pattern,
     is_double_colon |-> is_double_colon, calls_scripts |-> <<>>,
     uses_helm |-> FALSE, uses_kubectl |-> FALSE, uses_oc |-> FALSE]

\* the content of the dependency list a Target refers to
DepsOf(t) == dep_lists[t.dependencies]

\* dict[key] = value on a TLA+ function
Put(f, k, v) == [x \in (DOMAIN f) \cup {k} |-> IF x = k THEN v ELSE f[x]]

\* the key order of a dict after dict[key] = value
PutOrder(order, f, k) == IF k \in DOMAIN f THEN order ELSE Append(order, k)

EmptyMap == [x \in {} |-> <<>>]

\* the parser's state as one value
ParserState ==
    [targets |-> targets, target_order |-> target_order,
     pattern_rules |-> pattern_rules, dep_lists |-> dep_lists,
     variables |-> variables, includes |-> includes,
     detected_tools |-> detected_tools, current_target |-> current_target,
     in_recipe |-> in_recipe, in_define |-> in_define, define_var |-> define_var,
     conditional_stack |-> conditional_stack, parse_fault |-> parse_fault]

\* current_target is None, a Target of the map, or a Target of the pattern list
NoTarget == [kind |-> "none"]
MapTarget(name) == [kind |-> "map", name |-> name]
PatternTarget(idx) == [kind |-> "pattern", idx |-> idx]

(***************************************************************************)
(* makefile_analyzer.py: line classification                               *)
(***************************************************************************)
\* the operator list of _is_variable_definition and _parse_variable
AssignOps == << <<":",":","=">>, <<":","=">>, <<"!","=">>, <<"?","=">>,
                <<"+","=">>, <<"=">> >>

RECURSIVE IsVarDefFrom(_, _)
IsVarDefFrom(line, k) ==
    IF k > Len(AssignOps) THEN FALSE
    ELSE LET op == AssignOps[k]
         IN IF Contains(line, op)
            THEN IF /\ op = <<"=">>
                    /\ Contains(line, <<":">>)
                    /\ Find(line, <<":">>) < Find(line, <<"=">>)
                 THEN IsVarDefFrom(line, k + 1)
                 ELSE TRUE
            ELSE IsVarDefFrom(line, k + 1)

IsVariableDefinition(line) ==
    IF StartsWith(line, <<TAB>>) THEN FALSE ELSE IsVarDefFrom(line, 1)

IsTargetDefinition(line) ==
    IF ~Contains(line, <<":">>) THEN FALSE
    ELSE LET before == Split1(line, <<":">>)[1]
         IN ~ \E c \in {"=", "?", "+", "!"} : Contains(before, <<c>>)

(***************************************************************************)
(* makefile_analyzer.py: _parse_variable                                   *)
(***************************************************************************)
RECURSIVE ParseVariableFrom(_, _, _)
ParseVariableFrom(vs, line, k) ==
    IF k > Len(AssignOps) THEN vs
    ELSE LET op == AssignOps[k]
         IN IF ~Contains(line, op) THEN ParseVariableFrom(vs, line, k + 1)
            ELSE LET parts == Split1(line, op)
                     var_name == Strip(parts[1])
                     var_value == Strip(parts[2])
                 IN IF op = <<"+","=">>
                    THEN IF var_name \in DOMAIN vs
                         THEN Put(vs, var_name, vs[var_name] \o <<SP>> \o var_value)
                         ELSE Put(vs, var_name, var_value)
                    ELSE IF op = <<"?","=">>
                    THEN IF var_name \notin DOMAIN vs
                         THEN Put(vs, var_name, var_value)
                         ELSE vs
                    ELSE Put(vs, var_name, var_value)

\* _parse_variable with the operator list searched from ':=' on, so that
\* '::=' is no longer tried first
ParseVariableSkipFirstOp(vs, line) == ParseVariableFrom(vs, line, 2)

ParseVariable(vs, line) == ParseVariableFrom(vs, line, 1)

(***************************************************************************)
(* makefile_analyzer.py: _parse_target_line                                *)
(***************************************************************************)
\* The loop over the target names of one rule line.  acc carries the target
\* map, the pattern list and the list objects; deps_id is the one list object
\* built from the line's dependencies, which every Target made here refers to.
RECURSIVE TargetLoop(_, _, _, _, _, _)
TargetLoop(acc, names, i, deps_id, is_pattern, is_double_colon) ==
    IF i > Len(names) THEN acc
    ELSE LET target_name == names[i]
             target == MakefileTarget(target_name, deps_id, FALSE,
                                      is_pattern, is_double_colon)
         IN IF is_pattern
            THEN TargetLoop(
                    [acc EXCEPT !.pattern_rules = Append(@, target),
                                !.ret = PatternTarget(Len(acc.pattern_rules) + 1)],
                    names, i + 1, deps_id, is_pattern, is_double_colon)
            ELSE IF is_double_colon /\ target_name \in DOMAIN acc.targets
            THEN \* existing.dependencies.extend(dependencies); return existing
                 LET existing == acc.targets[target_name]
                 IN [acc EXCEPT
                        !.dep_lists[existing.dependencies] = @ \o acc.dep_lists[deps_id],
                        !.ret = MapTarget(target_name)]
            ELSE TargetLoop(
                    [acc EXCEPT !.targets = Put(@, target_name, target),
                                !.target_order = PutOrder(@, acc.targets, target_name),
                                !.ret = MapTarget(target_name)],
                    names, i + 1, deps_id, is_pattern, is_double_colon)

\* The value _parse_target_line works on and hands back: the map, the pattern
\* list and the list objects, ret = the Target returned (NoTarget for None)
\* and fault = an exception was raised.
TargetLineBase(st) ==
    [targets |-> st.targets, target_order |-> st.target_order,
     pattern_rules |-> st.pattern_rules, dep_lists |-> st.dep_lists,
     ret |-> NoTarget, fault |-> FALSE]

\* "dependencies = deps_part.split()" makes one new list object, then the loop
\* runs; "return target" with no name in the line is an UnboundLocalError
CreateTargets(st, names, dependencies, is_pattern, is_double_colon) ==
    IF names = <<>>
    THEN [TargetLineBase(st) EXCEPT !.dep_lists = Append(@, dependencies),
                                    !.fault = TRUE]
    ELSE TargetLoop([TargetLineBase(st) EXCEPT !.dep_lists = Append(@, dependencies)],
                    names, 1, Len(st.dep_lists) + 1, is_pattern, is_double_colon)

IsDoubleColonLine(line) ==
    Contains(line, <<":",":">>) /\ ~Contains(line, <<":",":",":">>)

ParseTargetParts(st, parts, is_double_colon) ==
    IF Len(parts) < 2 THEN TargetLineBase(st)
    ELSE CreateTargets(st, SplitWs(Strip(parts[1])), SplitWs(Strip(parts[2])),
                       Contains(Strip(parts[1]), <<"%">>), is_double_colon)

ParseTargetLine(st, line) ==
    ParseTargetParts(st,
        IF IsDoubleColonLine(line) THEN Split1(line, <<":",":">>)
        ELSE Split1(line, <<":">>),
        IsDoubleColonLine(line))

(***************************************************************************)
(* makefile_analyzer.py: _handle_conditional, _in_false_conditional        *)
(***************************************************************************)
ConditionalOpeners == { <<"i","f","e","q">>, <<"i","f","n","e","q">>,
                        <<"i","f","d","e","f">>, <<"i","f","n","d","e","f">> }

IsConditional(line) ==
    LET stripped == Strip(line)
    IN \/ \E w \in ConditionalOpeners : StartsWith(stripped, w)
       \/ stripped = <<"e","l","s","e">>
       \/ stripped = <<"e","n","d","i","f">>

\* _handle_conditional, had else inverted every entry of the stack
HandleConditionalInvertAll(stack, line) ==
    LET stripped == Strip(line)
    IN IF \E w \in ConditionalOpeners : StartsWith(stripped, w)
       THEN Append(stack, TRUE)
       ELSE IF stripped = <<"e","l","s","e">>
       THEN [i \in 1..Len(stack) |-> ~stack[i]]
       ELSE IF stripped = <<"e","n","d","i","f">>
       THEN IF stack # <<>> THEN SubSeq(stack, 1, Len(stack) - 1) ELSE stack
       ELSE stack

HandleConditional(stack, line) ==
    LET stripped == Strip(line)
    IN IF \E w \in ConditionalOpeners : StartsWith(stripped, w)
       THEN Append(stack, TRUE)
       ELSE IF stripped = <<"e","l","s","e">>
       THEN IF stack # <<>> THEN [stack EXCEPT ![Len(stack)] = ~@] ELSE stack
       ELSE IF stripped = <<"e","n","d","i","f">>
       THEN IF stack # <<>> THEN SubSeq(stack, 1, Len(stack) - 1) ELSE stack
       ELSE stack

InFalseConditional(stack) == \E i \in 1..Len(stack) : ~stack[i]


(***************************************************************************)
(* makefile_analyzer.py: TOOL_PATTERNS and SCRIPT_PATTERNS                 *)
(***************************************************************************)
\* first position >= i that holds no whitespace (Len(s) + 1 if there is none)
WsRunEnd(s, i) ==
    LET stops == {j \in i..Len(s) : s[j] \notin Whitespace}
    IN IF stops = {} THEN Len(s) + 1 ELSE CHOOSE j \in stops : \A k \in stops : j <= k

\* \b in front of a word character at position i
WordStart(s, i) == i = 1 \/ s[i - 1] \notin WordChars

\* re.compile(r'\b(tool)\s+(verb1|verb2|...)', re.IGNORECASE).search(cmd)
VerbToolSearch(cmd, tool, verbs) ==
    LET low == Lower(cmd)
    IN \E i \in 1..Len(cmd) :
          /\ WordStart(cmd, i)
          /\ StartsWithAt(low, tool, i)
          /\ i + Len(tool) <= Len(cmd)
          /\ cmd[i + Len(tool)] \in Whitespace
          /\ \E v \in verbs : StartsWithAt(low, v, WsRunEnd(cmd, i + Len(tool)))

ToolNames == <<"helm", "kubectl", "oc", "kustomize", "argocd", "ansible", "make">>

w_helm == <<"h","e","l","m">>
w_kubectl == <<"k","u","b","e","c","t","l">>
w_oc == <<"o","c">>
w_kustomize == <<"k","u","s","t","o","m","i","z","e">>
w_argocd == <<"a","r","g","o","c","d">>
w_ansible == <<"a","n","s","i","b","l","e">>
w_make == <<"m","a","k","e">>
w_install == <<"i","n","s","t","a","l","l">>
w_upgrade == <<"u","p","g","r","a","d","e">>
w_delete == <<"d","e","l","e","t","e">>
w_uninstall == <<"u","n","i","n","s","t","a","l","l">>
w_template == <<"t","e","m","p","l","a","t","e">>
w_apply == <<"a","p","p","l","y">>
w_create == <<"c","r","e","a","t","e">>
w_patch == <<"p","a","t","c","h">>
w_new_app == <<"n","e","w","-","a","p","p">>
w_process == <<"p","r","o","c","e","s","s">>
w_build == <<"b","u","i","l","d">>
w_edit == <<"e","d","i","t">>
w_app == <<"a","p","p">>
w_repo == <<"r","e","p","o">>
w_cluster == <<"c","l","u","s","t","e","r">>

\* TOOL_PATTERNS[tool].search(command) is not None
ToolSearch(tool, cmd) ==
    CASE tool = "helm" ->
            VerbToolSearch(cmd, w_helm,
                {w_install, w_upgrade, w_delete, w_uninstall, w_template})
      [] tool = "kubectl" ->
            VerbToolSearch(cmd, w_kubectl, {w_apply, w_create, w_delete, w_patch})
      [] tool = "oc" ->
            VerbToolSearch(cmd, w_oc,
                {w_apply, w_create, w_delete, w_new_app, w_process})
      [] tool = "kustomize" -> VerbToolSearch(cmd, w_kustomize, {w_build, w_edit})
      [] tool = "argocd" -> VerbToolSearch(cmd, w_argocd, {w_app, w_repo, w_cluster})
      [] tool = "ansible" ->
            \E i \in 1..Len(cmd) :
                WordStart(cmd, i) /\ StartsWithAt(Lower(cmd), w_ansible, i)
      [] tool = "make" ->
            \E i \in 1..Len(cmd) :
                /\ WordStart(cmd, i)
                /\ StartsWithAt(Lower(cmd), w_make, i)
                /\ i + 4 <= Len(cmd)
                /\ cmd[i + 4] \in Whitespace
                /\ WsRunEnd(cmd, i + 4) <= Len(cmd)

\* the tools whose pattern matches the command
ToolsIn(cmd) == {ToolNames[k] : k \in {j \in 1..Len(ToolNames) : ToolSearch(ToolNames[j], cmd)}}

ScriptChars == WordChars \cup {"-", "."}
ScriptPathChars == ScriptChars \cup {"/"}
dot_sh == <<".","s","h">>

\* ([class]+\.sh) matched greedily at position p: the matched text, or None
ClassSh(s, p, class) ==
    LET stops == {j \in p..Len(s) : s[j] \notin class}
        q == IF stops = {} THEN Len(s)
             ELSE (CHOOSE j \in stops : \A k \in stops : j <= k) - 1
        ends == {e \in (p + 3)..q : SubSeq(s, e - 2, e) = dot_sh}
    IN IF p > Len(s) \/ ends = {} THEN None
       ELSE SubSeq(s, p, CHOOSE e \in ends : \A f \in ends : e >= f)

\* the leftmost position in cands, or 0
Leftmost(cands) == IF cands = {} THEN 0 ELSE CHOOSE i \in cands : \A j \in cands : i <= j

\* re.compile(r'\./([\w\-\.]+\.sh)').search(cmd): group 1 or None
ScriptDotSlash(cmd) ==
    LET i == Leftmost({j \in 1..Len(cmd) :
                 StartsWithAt(cmd, <<".","/">>, j) /\ ClassSh(cmd, j + 2, ScriptChars) # None})
    IN IF i = 0 THEN None ELSE ClassSh(cmd, i + 2, ScriptChars)

\* re.compile(word + r'\s+([\w\-\.\/]+\.sh)').search(cmd): group 1 or None
ScriptAfterWord(cmd, word) ==
    LET ok(j) == /\ StartsWithAt(cmd, word, j)
                 /\ j + Len(word) <= Len(cmd)
                 /\ cmd[j + Len(word)] \in Whitespace
                 /\ ClassSh(cmd, WsRunEnd(cmd, j + Len(word)), ScriptPathChars) # None
        i == Leftmost({j \in 1..Len(cmd) : ok(j)})
    IN IF i = 0 THEN None
       ELSE ClassSh(cmd, WsRunEnd(cmd, i + Len(word)), ScriptPathChars)

ScriptDirVars == { <<"P","W","D">>, <<"R","O","O","T","_","D","I","R">>,
                   <<"S","C","R","I","P","T","_","D","I","R">> }

\* re.compile(r'\$\(?(PWD|ROOT_DIR|SCRIPT_DIR)[^\)]*\)?\/([\w\-\.\/]+\.sh)')
\* tried at position i: group 2 or None.  [^\)]* is greedy, so the match uses
\* the longest run g after the name that still lets the rest match.
ScriptDirAt(cmd, i) ==
    IF ~(i <= Len(cmd) /\ cmd[i] = "$") THEN None
    ELSE LET n0 == IF i + 1 <= Len(cmd) /\ cmd[i + 1] = "(" THEN i + 2 ELSE i + 1
             names == {v \in ScriptDirVars : StartsWithAt(cmd, v, n0)}
         IN IF names = {} THEN None
            ELSE LET a == n0 + Len(CHOOSE v \in names : TRUE)
                     closers == {j \in a..Len(cmd) : cmd[j] = ")"}
                     m == IF closers = {} THEN Len(cmd) + 1
                          ELSE CHOOSE j \in closers : \A k \in closers : j <= k
                     after(pos) ==
                        IF pos <= Len(cmd) /\ cmd[pos] = ")"
                           /\ pos + 1 <= Len(cmd) /\ cmd[pos + 1] = "/"
                           /\ ClassSh(cmd, pos + 2, ScriptPathChars) # None
                        THEN ClassSh(cmd, pos + 2, ScriptPathChars)
                        ELSE IF pos <= Len(cmd) /\ cmd[pos] = "/"
                        THEN ClassSh(cmd, pos + 1, ScriptPathChars)
                        ELSE None
                     good == {pos \in a..m : after(pos) # None}
                 IN IF good = {} THEN None
                    ELSE after(CHOOSE pos \in good : \A o \in good : pos >= o)

ScriptDir(cmd) ==
    LET i == Leftmost({j \in 1..Len(cmd) : ScriptDirAt(cmd, j) # None})
    IN IF i = 0 THEN None ELSE ScriptDirAt(cmd, i)

\* the script names the four SCRIPT_PATTERNS add for one command, in order
ScriptsIn(cmd) ==
    LET found == << ScriptDotSlash(cmd),
                    ScriptAfterWord(cmd, <<"b","a","s","h">>),
                    ScriptAfterWord(cmd, <<"s","h">>),
                    ScriptDir(cmd) >>
    IN SelectSeq(found, LAMBDA x : x # None)


(***************************************************************************)
(* makefile_analyzer.py: one iteration of the loop of _parse_makefile on   *)
(* the logical line full_line                                              *)
(***************************************************************************)
w_define_sp == <<"d","e","f","i","n","e"," ">>
w_endef == <<"e","n","d","e","f">>
w_include == <<"i","n","c","l","u","d","e">>
w_dash_include == <<"-","i","n","c","l","u","d","e">>
w_sinclude == <<"s","i","n","c","l","u","d","e">>
w_phony_colon == <<".","P","H","O","N","Y",":">>

\* the Target object current_target refers to
TargetAt(st, ref) ==
    IF ref.kind = "map" THEN st.targets[ref.name] ELSE st.pattern_rules[ref.idx]

\* st with the Target object current_target refers to replaced by t
WithTargetAt(st, ref, t) ==
    IF ref.kind = "map"
    THEN [st EXCEPT !.targets[ref.name] = t]
    ELSE [st EXCEPT !.pattern_rules[ref.idx] = t]

\* the loop over the names of a .PHONY: line, had it replaced the Target of a
\* name already defined by a placeholder
RECURSIVE PhonyLoopReplacing(_, _, _)
PhonyLoopReplacing(st, names, i) ==
    IF i > Len(names) THEN st
    ELSE PhonyLoopReplacing(
            [st EXCEPT
               !.dep_lists = Append(@, <<>>),
               !.targets = Put(@, names[i],
                    MakefileTarget(names[i], Len(st.dep_lists) + 1,
                                   TRUE, FALSE, FALSE)),
               !.target_order = IF names[i] \in DOMAIN st.targets
                                THEN @ ELSE Append(@, names[i])],
            names, i + 1)

\* the loop over the names of a .PHONY: line
RECURSIVE PhonyLoop(_, _, _)
PhonyLoop(st, names, i) ==
    IF i > Len(names) THEN st
    ELSE LET target_name == names[i]
         IN IF target_name \in DOMAIN st.targets
            THEN PhonyLoop([st EXCEPT !.targets[target_name].is_phony = TRUE],
                           names, i + 1)
            ELSE PhonyLoop(
                    [st EXCEPT
                       !.dep_lists = Append(@, <<>>),
                       !.targets = Put(@, target_name,
                            MakefileTarget(target_name, Len(st.dep_lists) + 1,
                                           TRUE, FALSE, FALSE)),
                       !.target_order = Append(@, target_name)],
                    names, i + 1)

\* the recipe branch, had it set the flags without adding to detected_tools
AppendCommandFlagsOnly(st, t, command, scripts, tools) ==
    WithTargetAt(st, st.current_target,
        [t EXCEPT !.commands = Append(@, command),
                  !.calls_scripts = @ \o scripts,
                  !.uses_helm = @ \/ "helm" \in tools,
                  !.uses_kubectl = @ \/ "kubectl" \in tools,
                  !.uses_oc = @ \/ "oc" \in tools])

\* the recipe branch: record one command on the current target t
AppendCommand(st, t, command, scripts, tools) ==
    [WithTargetAt(st, st.current_target,
        [t EXCEPT !.commands = Append(@, command),
                  !.calls_scripts = @ \o scripts,
                  !.uses_helm = @ \/ "helm" \in tools,
                  !.uses_kubectl = @ \/ "kubectl" \in tools,
                  !.uses_oc = @ \/ "oc" \in tools])
        EXCEPT !.detected_tools = @ \cup tools]

ClassifyCommand(st, command) ==
    AppendCommand(st, TargetAt(st, st.current_target), command,
                  ScriptsIn(command), ToolsIn(command))

\* raw is the line without its leading tab
RecordCommand(st, raw) ==
    IF Strip(raw) = <<>> THEN st
    ELSE ClassifyCommand(st,
            IF StartsWith(Strip(raw), <<"@">>) THEN From(Strip(raw), 2) ELSE raw)

\* the target-definition branch: r is what _parse_target_line handed back
AfterTargetLine(st, r) ==
    [st EXCEPT !.targets = r.targets,
               !.target_order = r.target_order,
               !.pattern_rules = r.pattern_rules,
               !.dep_lists = r.dep_lists,
               !.parse_fault = r.fault,
               !.current_target = IF ~r.fault /\ r.ret # NoTarget THEN r.ret ELSE @,
               !.in_recipe = IF ~r.fault /\ r.ret # NoTarget THEN TRUE ELSE @]

\* the comment branch
RecordDescription(st, desc) ==
    IF desc # <<>>
    THEN WithTargetAt(st, st.current_target,
            [TargetAt(st, st.current_target) EXCEPT !.description = desc])
    ELSE st

ParseLine(st, line) ==
    \* skip empty lines
    IF Strip(line) = <<>> THEN st
    \* define NAME
    ELSE IF StartsWith(Strip(line), w_define_sp)
    THEN [st EXCEPT !.define_var = SplitWs(line)[2], !.in_define = TRUE,
                    !.variables = Put(@, SplitWs(line)[2], <<>>)]
    \* body of a define block
    ELSE IF st.in_define
    THEN IF Strip(line) = w_endef
         THEN [st EXCEPT !.in_define = FALSE, !.define_var = None]
         ELSE IF st.define_var # None /\ st.define_var # <<>>
         THEN [st EXCEPT !.variables[st.define_var] = @ \o line \o <<NL>>]
         ELSE st
    \* comments, possibly a target description
    ELSE IF StartsWith(Strip(line), <<"#">>)
    THEN IF /\ st.current_target # NoTarget
            /\ ~st.in_recipe
            /\ TargetAt(st, st.current_target).description \in {None, <<>>}
         THEN RecordDescription(st, Strip(LStripChar(Strip(line), "#")))
         ELSE st
    \* conditional directives
    ELSE IF IsConditional(line)
    THEN [st EXCEPT !.conditional_stack = HandleConditional(@, line)]
    \* skipped branch
    ELSE IF InFalseConditional(st.conditional_stack) THEN st
    \* variable definitions
    ELSE IF IsVariableDefinition(line)
    THEN [st EXCEPT !.variables = ParseVariable(@, line)]
    \* include directives
    ELSE IF \E w \in {w_include, w_dash_include, w_sinclude} : StartsWith(Strip(line), w)
    THEN [st EXCEPT !.includes = @ \o Tail(SplitWs(line))]
    \* .PHONY:
    ELSE IF StartsWith(Strip(line), w_phony_colon)
    THEN PhonyLoop(st, SplitWs(Split1(line, <<":">>)[2]), 1)
    \* target definitions
    ELSE IF IsTargetDefinition(line) /\ ~StartsWith(line, <<TAB>>)
    THEN AfterTargetLine(st, ParseTargetLine(st, line))
    \* recipe commands
    ELSE IF StartsWith(line, <<TAB>>) /\ st.current_target # NoTarget
    THEN RecordCommand(st, From(line, 2))
    ELSE [st EXCEPT !.in_recipe = FALSE]

(***************************************************************************)
(* Parsing: the state after MakefileAnalyzer.__init__ and the parse loop   *)
(***************************************************************************)
\* most logical lines a modelled Makefile has
MaxLines == 3

\* number of top-level expand() calls made on one engine
MaxCalls == 2

n_A == <<"A">>
n_B == <<"B">>
n_foo == <<"f","o","o">>
n_bar == <<"b","a","r">>

\* NAME op VALUE
Assign(name, op, value) == name \o <<SP>> \o op \o <<SP>> \o value

AssignLines ==
    { Assign(n_A, AssignOps[k], <<"x">>) : k \in 1..Len(AssignOps) }
    \cup { Assign(n_A, <<"=">>, <<"y">>), Assign(n_A, <<"+","=">>, <<"y">>),
           Assign(n_A, <<"?","=">>, <<"y">>), Assign(n_B, <<"+","=">>, <<"y">>),
           Assign(n_B, <<"!","=">>, <<"l","s">>) }

\* names sep deps
Rule(names, sep, deps) == names \o sep \o <<SP>> \o deps

RuleLines ==
    { Rule(n_foo, <<":">>, <<"a">>),
      Rule(n_foo, <<":",":">>, <<"a">>),
      Rule(n_foo, <<":",":">>, <<"b"," ","c">>),
      Rule(n_bar, <<":",":">>, <<"a">>),
      Rule(n_foo \o <<SP>> \o n_bar, <<":">>, <<"x">>),
      Rule(n_foo \o <<SP>> \o n_bar, <<":",":">>, <<"b">>),
      Rule(n_foo \o <<SP>> \o n_foo, <<":",":">>, <<"a">>),
      Rule(<<"%",".","o">>, <<":">>, <<"%",".","c">>),
      Rule(<<>>, <<":">>, <<"a">>) }

OtherLines ==
    { w_phony_colon \o <<SP>> \o n_foo,
      <<TAB>> \o w_helm \o <<SP>> \o w_install \o <<SP,"x">>,
      <<"#",SP,"d">>,
      <<"i","f","d","e","f",SP,"X">>,
      <<"e","l","s","e">>,
      <<"e","n","d","i","f">>,
      w_define_sp \o <<"D">>,
      w_endef,
      w_include \o <<SP,"m">>,
      <<SP>> }

n_pat == <<"%",".","o">>
w_junk == <<"j","u","n","k">>

\* lines on which the classification is delicate
MoreLines ==
    { w_phony_colon \o <<SP>> \o n_foo \o <<SP>> \o n_bar,
      w_phony_colon \o <<SP>> \o n_pat,
      Rule(n_foo, <<":">>, <<"A",":","=","x">>),
      Rule(n_foo, <<":">>, <<"A","=","x">>),
      Rule(n_foo \o <<SP>> \o n_pat, <<":">>, <<"x">>),
      w_junk }

InputLines == AssignLines \cup RuleLines \cup OtherLines \cup MoreLines

ParserInit ==
    /\ targets = EmptyMap
    /\ target_order = <<>>
    /\ pattern_rules = <<>>
    /\ dep_lists = <<>>
    /\ variables = EmptyMap
    /\ includes = <<>>
    /\ detected_tools = {}
    /\ current_target = NoTarget
    /\ in_recipe = FALSE
    /\ in_define = FALSE
    /\ define_var = None
    /\ conditional_stack = <<>>
    /\ full_line = None
    /\ lines_read = 0
    /\ parse_fault = FALSE

FlowIdle ==
    /\ has_install_target = FALSE
    /\ has_uninstall_target = FALSE
    /\ install_flow = <<>>
    /\ uninstall_flow = <<>>
    /\ flow_pc = "parse"
    /\ trace_kind = "none"
    /\ trace_stack = <<>>
    /\ visited = {}

\* the environment argument of the constructor: left out (None), or a dict
NoArgument == [given |-> FALSE, dict |-> EmptyMap]
Supplied(dict) == [given |-> TRUE, dict |-> dict]
Argument(x) == IF x = None THEN NoArgument ELSE Supplied(x)

\* os.environ of the process that runs the analysis
os_environ == Put(EmptyMap, <<"P","A","T","H">>, <<"/","b","i","n">>)

ExpanderIdle ==
    /\ environment_argument = NoArgument
    /\ process_environment = os_environ
    /\ self_variables = EmptyMap
    /\ environment = EmptyMap
    /\ expansion_cache = EmptyMap
    /\ recursion_stack = {}
    /\ frames = <<>>
    /\ call = None
    /\ returned = None
    /\ calls_made = 0
    /\ stored_by = EmptyMap

\* the dictionary target_results of expand_all_targets before its loops
EmptyTargetResults ==
    [commands |-> <<>>, dependencies |-> <<>>, variables_used |-> {},
     functions_used |-> {}, automatic_vars_used |-> {}, unexpanded_vars |-> {}]

\* the locals of expand_all_targets at target number ti, item number k
Batch(ti, k, waiting, target_results, results) ==
    [ti |-> ti, k |-> k, waiting |-> waiting, target_results |-> target_results,
     results |-> results]

\* expand_all_targets was not called; the analysis holds the two empty dicts
BatchIdle ==
    /\ batch = Batch(0, 0, FALSE, EmptyTargetResults, EmptyMap)
    /\ variable_expansion_results = EmptyMap
    /\ expansion_summary = EmptyMap

ParseInit == ParserInit /\ FlowIdle /\ ExpanderIdle /\ BatchIdle

\* the analyzer's fields and the loop's locals after one iteration
ParserBecomes(r) ==
    /\ targets' = r.targets
    /\ target_order' = r.target_order
    /\ pattern_rules' = r.pattern_rules
    /\ dep_lists' = r.dep_lists
    /\ variables' = r.variables
    /\ includes' = r.includes
    /\ detected_tools' = r.detected_tools
    /\ current_target' = r.current_target
    /\ in_recipe' = r.in_recipe
    /\ in_define' = r.in_define
    /\ define_var' = r.define_var
    /\ conditional_stack' = r.conditional_stack
    /\ parse_fault' = r.parse_fault

\* the analyzer's fields and the loop's locals are those of the parse result r
ParserIs(r) ==
    /\ targets = r.targets
    /\ target_order = r.target_order
    /\ pattern_rules = r.pattern_rules
    /\ dep_lists = r.dep_lists
    /\ variables = r.variables
    /\ includes = r.includes
    /\ detected_tools = r.detected_tools
    /\ current_target = r.current_target
    /\ in_recipe = r.in_recipe
    /\ in_define = r.in_define
    /\ define_var = r.define_var
    /\ conditional_stack = r.conditional_stack
    /\ parse_fault = r.parse_fault

\* one iteration of the while loop of _parse_makefile on a file of at most
\* max logical lines taken from lines
ParseStepFrom(lines, max) ==
    /\ flow_pc = "parse"
    /\ ~parse_fault
    /\ lines_read < max
    /\ \E line \in lines :
          /\ ParserBecomes(ParseLine(ParserState, line))
          /\ full_line' = line
          /\ lines_read' = lines_read + 1
    /\ UNCHANGED <<flow_vars, expander_vars, batch_vars, construction_vars>>

ParseStep == ParseStepFrom(InputLines, MaxLines)

ParseNext == ParseStep

ParseSpec == ParseInit /\ [][ParseNext]_vars


(***************************************************************************)
(* Properties of parsing                                                   *)
(***************************************************************************)
\* the line just consumed was neither inside a define block nor in a skipped
\* conditional branch (evaluated on the state before the line)
LineWasActive == ~in_define /\ ~InFalseConditional(conditional_stack)

AssignNames == {n_A, n_B}
AssignValues == {<<"x">>, <<"y">>, <<"l","s">>}
op_plain == <<"=">>
op_simple == <<":","=">>
op_posix == <<":",":","=">>
op_shell == <<"!","=">>
op_append == <<"+","=">>
op_cond == <<"?","=">>
OverwriteOps == {op_plain, op_simple, op_posix, op_shell}

\* the variable table the assignment NAME op VALUE has to produce from table vs
TableAfter(vs, name, op, value) ==
    [n \in (DOMAIN vs) \cup {name} |->
        IF n # name THEN vs[n]
        ELSE IF op \in OverwriteOps THEN value
        ELSE IF op = op_append
        THEN IF name \in DOMAIN vs THEN vs[name] \o <<SP>> \o value ELSE value
        ELSE IF name \in DOMAIN vs THEN vs[name] ELSE value]

\* C1: after every active assignment line NAME op VALUE the variable table is
\* the old table with NAME set to VALUE for =, :=, ::= and !=, to
\* old value + one space + VALUE (or VALUE if NAME was undefined) for +=, and
\* with NAME kept if defined (else set to VALUE) for ?=; no other variable changes.
C1_AssignmentOperators ==
    [][ \A name \in AssignNames, value \in AssignValues,
           op \in OverwriteOps \cup {op_append, op_cond} :
           ( /\ lines_read' = lines_read + 1
             /\ full_line' = Assign(name, op, value)
             /\ LineWasActive )
           => variables' = TableAfter(variables, name, op, value) ]_vars

\* C1 witness: A was defined as x, then "A += y" made it "x y"
C1_Witness ==
    /\ full_line = Assign(n_A, op_append, <<"y">>)
    /\ n_A \in DOMAIN variables
    /\ variables[n_A] = <<"x", SP, "y">>

\* double-colon rule lines as (names, dependencies)
DoubleColonRules ==
    { [names |-> <<n_foo>>, deps |-> <<<<"a">>>>],
      [names |-> <<n_foo>>, deps |-> <<<<"b">>, <<"c">>>>],
      [names |-> <<n_bar>>, deps |-> <<<<"a">>>>],
      [names |-> <<n_foo, n_bar>>, deps |-> <<<<"b">>>>],
      [names |-> <<n_foo, n_foo>>, deps |-> <<<<"a">>>>] }

RuleText(r, sep) == Rule(Join(r.names, <<SP>>), sep, Join(r.deps, <<SP>>))

\* number of entries the target map holds for name n
EntriesFor(order, n) == Cardinality({i \in 1..Len(order) : order[i] = n})

\* C2: an active double-colon rule line for a name that already has an entry
\* keeps exactly one Target for that name, and that Target's dependency list
\* becomes the old list followed by the line's dependencies.
C2_DoubleColonMerges ==
    [][ \A r \in DoubleColonRules : \A n \in Range(r.names) :
           ( /\ lines_read' = lines_read + 1
             /\ full_line' = RuleText(r, <<":",":">>)
             /\ LineWasActive
             /\ n \in DOMAIN targets )
           => /\ n \in DOMAIN targets'
              /\ EntriesFor(target_order', n) = 1
              /\ dep_lists'[targets'[n].dependencies] = DepsOf(targets[n]) \o r.deps ]_vars

\* what the parse leaves in MakefileAnalysis: targets and their fields,
\* pattern rules, variables, includes, detected tools
analysis_vars ==
    <<targets, target_order, pattern_rules, dep_lists, variables, includes,
      detected_tools>>

\* C11: while the conditional stack holds a false entry, a line that is not a
\* conditional directive changes neither the target map, nor any field of any
\* Target, nor the variable table, the include list or the detected tools.
C11_FalseBranchSkipped ==
    [][ ( /\ lines_read' = lines_read + 1
          /\ InFalseConditional(conditional_stack)
          /\ ~IsConditional(full_line') )
        => UNCHANGED analysis_vars ]_vars

IsInclude(line) ==
    \E w \in {w_include, w_dash_include, w_sinclude} : StartsWith(Strip(line), w)

\* a non-empty line without a leading tab that does not define a target:
\* a variable assignment, an include, a .PHONY line, a comment, a conditional
\* directive, or a line of none of the recognised forms
EndsRecipe(line) ==
    /\ Strip(line) # <<>>
    /\ ~StartsWith(line, <<TAB>>)
    /\ \/ IsVariableDefinition(line)
       \/ IsInclude(line)
       \/ StartsWith(Strip(line), w_phony_colon)
       \/ StartsWith(Strip(line), <<"#">>)
       \/ IsConditional(line)
       \/ ~IsTargetDefinition(line)

\* C12: a tab-indented line that directly follows a non-empty line which is
\* neither tab-indented nor a target definition is not added to the commands
\* of any target (the recipe of the earlier target has ended).
C12_RecipeEndsAtNonTabLine ==
    [][ ( /\ lines_read' = lines_read + 1
          /\ lines_read > 0
          /\ EndsRecipe(full_line)
          /\ StartsWith(full_line', <<TAB>>) )
        => UNCHANGED <<targets, pattern_rules>> ]_vars

w_comment_d == <<"#", SP, "d">>

\* the description of the Target current_target refers to, in the next state
DescriptionAfter ==
    IF current_target.kind = "map"
    THEN targets'[current_target.name].description
    ELSE pattern_rules'[current_target.idx].description

\* C13: a comment line "# d" that directly follows an active target-definition
\* line for T, T having no description yet, makes "d" the description of T.
C13_CommentAfterTargetDescribes ==
    [][ ( /\ lines_read' = lines_read + 1
          /\ full_line \in RuleLines
          /\ LineWasActive
          /\ ~parse_fault
          /\ current_target # NoTarget
          /\ TargetAt(ParserState, current_target).description = None
          /\ full_line' = w_comment_d )
        => DescriptionAfter = <<"d">> ]_vars

\* .PHONY lines as (line, names)
PhonyLines ==
    { [line |-> w_phony_colon \o <<SP>> \o n_foo, names |-> <<n_foo>>],
      [line |-> w_phony_colon \o <<SP>> \o n_foo \o <<SP>> \o n_bar,
       names |-> <<n_foo, n_bar>>],
      [line |-> w_phony_colon \o <<SP>> \o n_pat, names |-> <<n_pat>>] }

\* C14: directly after an active line ".PHONY: n1 ... nk" every ni is a key of
\* the target map with is_phony set; a Target that existed keeps its
\* dependencies, commands, description and other flags; a new name gets a
\* placeholder without dependencies and commands; the current target stays.
C14_PhonyLine ==
    [][ \A p \in PhonyLines :
          ( /\ lines_read' = lines_read + 1
            /\ full_line' = p.line
            /\ LineWasActive )
          => /\ \A n \in Range(p.names) :
                  n \in DOMAIN targets' /\ targets'[n].is_phony
             /\ \A n \in DOMAIN targets :
                  /\ n \in DOMAIN targets'
                  /\ targets'[n] = IF n \in Range(p.names)
                                   THEN [targets[n] EXCEPT !.is_phony = TRUE]
                                   ELSE targets[n]
                  /\ dep_lists'[targets'[n].dependencies] = DepsOf(targets[n])
             /\ \A n \in Range(p.names) \ DOMAIN targets :
                  /\ dep_lists'[targets'[n].dependencies] = <<>>
                  /\ targets'[n].commands = <<>>
             /\ DOMAIN targets' = DOMAIN targets \cup Range(p.names)
             /\ UNCHANGED <<current_target, pattern_rules>> ]_vars

\* C14 witness: foo had a dependency and a command when ".PHONY: foo bar" was
\* read; foo is now phony and keeps both, bar is a phony placeholder
C14_Witness ==
    /\ full_line = w_phony_colon \o <<SP>> \o n_foo \o <<SP>> \o n_bar
    /\ {n_foo, n_bar} \subseteq DOMAIN targets
    /\ targets[n_foo].is_phony /\ targets[n_bar].is_phony
    /\ DepsOf(targets[n_foo]) = <<<<"a">>>>
    /\ Len(targets[n_foo].commands) = 1
    /\ DepsOf(targets[n_bar]) = <<>> /\ targets[n_bar].commands = <<>>
    /\ current_target = MapTarget(n_foo)

\* rule lines naming two concrete targets, as (names, separator, dependencies)
MultiNameRules ==
    { [names |-> <<n_foo, n_bar>>, sep |-> <<":">>, deps |-> <<<<"x">>>>],
      [names |-> <<n_foo, n_bar>>, sep |-> <<":",":">>, deps |-> <<<<"b">>>>] }

\* C15: after an active rule line naming several concrete targets, with a
\* single or a double colon, every one of the names has an entry in the target
\* map whose dependency list contains the dependencies of the line.
C15_EveryNameGetsEntry ==
    [][ \A r \in MultiNameRules :
          ( /\ lines_read' = lines_read + 1
            /\ full_line' = RuleText(r, r.sep)
            /\ LineWasActive )
          => \A n \in Range(r.names) :
                /\ n \in DOMAIN targets'
                /\ Range(r.deps) \subseteq
                      Range(dep_lists'[targets'[n].dependencies]) ]_vars

\* C18: no sequence of input lines puts the parser into a fault state: an
\* exception never escapes _parse_makefile, whatever the lines are.
C18_NoParseFault == ~parse_fault

\* rule lines whose dependency part holds an assignment operator
TargetSpecificLines ==
    { Rule(n_foo, <<":">>, <<"A", "=", "x">>),
      Rule(n_foo, <<":">>, <<"A", ":", "=", "x">>) }

\* C19: an active line "foo: A=x" or "foo: A:=x", where a colon precedes the
\* assignment operator, is taken as a target definition: foo gets an entry in
\* the target map and the variable table does not change.
C19_ColonBeforeOperator ==
    [][ ( /\ lines_read' = lines_read + 1
          /\ full_line' \in TargetSpecificLines
          /\ LineWasActive )
        => /\ n_foo \in DOMAIN targets'
           /\ variables' = variables ]_vars

\* C23: a Target that has is_phony set keeps its entry in the target map with
\* is_phony set over every step of the parse, also over the step that reads
\* the target's own rule line after the .PHONY line that listed it.
C23_PhonyStays ==
    [][ \A n \in DOMAIN targets :
          targets[n].is_phony
          => (n \in DOMAIN targets' /\ targets'[n].is_phony) ]_vars

\* the rule lines of the input, as (line, names)
NamedRuleLines ==
    { [line |-> Rule(n_foo, <<":">>, <<"a">>), names |-> {n_foo}],
      [line |-> Rule(n_foo, <<":",":">>, <<"a">>), names |-> {n_foo}],
      [line |-> Rule(n_foo, <<":",":">>, <<"b"," ","c">>), names |-> {n_foo}],
      [line |-> Rule(n_bar, <<":",":">>, <<"a">>), names |-> {n_bar}],
      [line |-> Rule(n_foo \o <<SP>> \o n_bar, <<":">>, <<"x">>),
       names |-> {n_foo, n_bar}],
      [line |-> Rule(n_foo \o <<SP>> \o n_bar, <<":",":">>, <<"b">>),
       names |-> {n_foo, n_bar}],
      [line |-> Rule(n_foo \o <<SP>> \o n_foo, <<":",":">>, <<"a">>),
       names |-> {n_foo}],
      [line |-> Rule(n_pat, <<":">>, <<"%",".","c">>), names |-> {n_pat}] }

\* C24: an active rule line leaves the dependency list of every Target it
\* does not name as it was, also when a double-colon line is merged into an
\* existing Target that shared an earlier multi-target line with another one.
C24_OtherDependenciesKept ==
    [][ \A r \in NamedRuleLines :
          ( /\ lines_read' = lines_read + 1
            /\ full_line' = r.line
            /\ LineWasActive )
          => \A n \in DOMAIN targets \ r.names :
                /\ n \in DOMAIN targets'
                /\ dep_lists'[targets'[n].dependencies] = DepsOf(targets[n])
      ]_vars

HasPercent(name) == "%" \in Range(name)

\* C20: the pattern-rule list holds exactly the Targets whose name contains %,
\* is_pattern_rule is set on exactly those, and no key of the target map
\* contains %.
C20_PatternRouting ==
    /\ \A i \in 1..Len(pattern_rules) :
          HasPercent(pattern_rules[i].name) /\ pattern_rules[i].is_pattern_rule
    /\ \A n \in DOMAIN targets :
          ~HasPercent(n) /\ ~HasPercent(targets[n].name) /\ ~targets[n].is_pattern_rule


(***************************************************************************)
(* Parsing of Makefiles made of conditional directives                     *)
(***************************************************************************)
\* most logical lines such a Makefile has
MaxDirectives == 5

w_else == <<"e","l","s","e">>
w_endif == <<"e","n","d","i","f">>

OpenerLines ==
    { <<"i","f","e","q",SP,"(","a",",","b",")">>,
      <<"i","f","n","e","q",SP,"(","a",",","b",")">>,
      <<"i","f","d","e","f",SP,"X">>,
      <<"i","f","n","d","e","f",SP,"X">> }

\* the six directives and one rule line
ConditionalLines == OpenerLines \cup {w_else, w_endif, Rule(n_foo, <<":">>, <<"a">>)}

ConditionalStep == ParseStepFrom(ConditionalLines, MaxDirectives)

ConditionalNext == ConditionalStep

ConditionalSpec == ParseInit /\ [][ConditionalNext]_vars

\* the stack the claim prescribes after the directive line on stack
StackAfter(stack, line) ==
    IF line \in OpenerLines THEN stack \o <<TRUE>>
    ELSE IF stack = <<>> THEN <<>>
    ELSE IF line = w_else
    THEN [i \in 1..Len(stack) |-> IF i = Len(stack) THEN ~stack[i] ELSE stack[i]]
    ELSE [i \in 1..(Len(stack) - 1) |-> stack[i]]

\* C21: ifeq, ifneq, ifdef and ifndef push true, else inverts the top entry
\* only, endif removes the top entry only, both leave an empty stack empty; an
\* opener read in a skipped branch leaves the parser in a skipped branch; and
\* the rule line "foo: a" defines foo exactly when no entry is false.
C21_ConditionalStack ==
    [][ lines_read' = lines_read + 1 =>
          /\ full_line' \in ConditionalLines \ {Rule(n_foo, <<":">>, <<"a">>)}
                => conditional_stack' = StackAfter(conditional_stack, full_line')
          /\ ( /\ full_line' \in OpenerLines
               /\ \E i \in 1..Len(conditional_stack) : ~conditional_stack[i] )
                => \E i \in 1..Len(conditional_stack') : ~conditional_stack'[i]
          /\ full_line' = Rule(n_foo, <<":">>, <<"a">>)
                => /\ conditional_stack' = conditional_stack
                   /\ (n_foo \in DOMAIN targets') =
                         \/ n_foo \in DOMAIN targets
                         \/ \A i \in 1..Len(conditional_stack) : conditional_stack[i]
      ]_vars

\* C21 witness: the first branch of a conditional nested in a skipped branch,
\* where the rule line was read and skipped
C21_Witness ==
    /\ conditional_stack = <<FALSE, TRUE>>
    /\ full_line = Rule(n_foo, <<":">>, <<"a">>)
    /\ n_foo \notin DOMAIN targets


(***************************************************************************)
(* Parsing of Makefiles made of assignment lines                           *)
(***************************************************************************)
\* most logical lines such a Makefile has
MaxAssignments == 3

\* assignment lines, some with a second operator in the value
AssignmentLines ==
    { Assign(n_A, <<"=">>, <<"x">>),
      Assign(n_A, <<"=">>, <<"x"," ","?","="," ","y">>),
      Assign(n_A, <<"=">>, <<"$","(","B",":","=",".","o",")">>),
      Assign(n_A, <<"?","=">>, <<"x"," ","="," ","y">>),
      Assign(n_A, <<":","=">>, <<"x"," ","="," ","y">>),
      Assign(n_A, <<"+","=">>, <<"y">>),
      Assign(n_A, <<"+","=">>, <<"x"," ","?","="," ","y">>),
      Assign(n_B, <<":",":","=">>, <<"x">>) }

AssignmentStep == ParseStepFrom(AssignmentLines, MaxAssignments)

AssignmentNext == AssignmentStep

AssignmentSpec == ParseInit /\ [][AssignmentNext]_vars

\* the assignment operator that occurs first in the line
LeftmostOperator(line) ==
    CHOOSE op \in Range(AssignOps) :
        /\ Contains(line, op)
        /\ \A other \in Range(AssignOps) :
              Contains(line, other) => Find(line, op) <= Find(line, other)

\* the variable table after op assigns var_value to var_name
Assigned(vs, var_name, op, var_value) ==
    IF op = <<"+","=">>
    THEN IF var_name \in DOMAIN vs
         THEN Put(vs, var_name, vs[var_name] \o <<SP>> \o var_value)
         ELSE Put(vs, var_name, var_value)
    ELSE IF op = <<"?","=">>
    THEN IF var_name \notin DOMAIN vs THEN Put(vs, var_name, var_value) ELSE vs
    ELSE Put(vs, var_name, var_value)

\* the line split at its leftmost operator
SplitAtLeftmost(vs, line) ==
    LET op == LeftmostOperator(line)
        parts == Split1(line, op)
    IN Assigned(vs, Strip(parts[1]), op, Strip(parts[2]))

\* C29: an active assignment line is split at its leftmost assignment
\* operator: the name is the text before it, the operator applied is that one
\* and the value is the rest of the line, also when the value holds another
\* operator ("A = x ?= y" overwrites A with "x ?= y").
C29_SplitAtLeftmostOperator ==
    [][ ( /\ lines_read' = lines_read + 1
          /\ full_line' \in AssignmentLines
          /\ LineWasActive )
        => variables' = SplitAtLeftmost(variables, full_line') ]_vars

(***************************************************************************)
(* Parsing of Makefiles made of rules and recipes that call tools          *)
(***************************************************************************)
\* most logical lines such a Makefile has
MaxRecipeLines == 4

l_helm == <<TAB>> \o w_helm \o <<SP>> \o w_install \o <<SP, "x">>
l_kubectl == <<TAB>> \o w_kubectl \o <<SP>> \o w_apply \o <<SP, "x">>
l_oc == <<TAB>> \o w_oc \o <<SP>> \o w_process \o <<SP, "x">>
l_helm_list == <<TAB>> \o w_helm \o <<SP, "l", "i", "s", "t">>

RecipeLines ==
    { Rule(n_foo, <<":">>, <<"a">>),
      Rule(n_bar, <<":">>, <<"a">>),
      Rule(n_foo \o <<SP>> \o n_bar, <<":">>, <<"x">>),
      l_helm, l_kubectl, l_oc, l_helm_list,
      w_phony_colon \o <<SP>> \o n_foo,
      w_junk }

RecipeStep == ParseStepFrom(RecipeLines, MaxRecipeLines)

RecipeNext == RecipeStep

RecipeSpec == ParseInit /\ [][RecipeNext]_vars

\* the tool flags of a Target and the recipe line that sets each
ToolFlags(t) ==
    [helm |-> t.uses_helm, kubectl |-> t.uses_kubectl, oc |-> t.uses_oc]

ToolLine(tool) ==
    IF tool = "helm" THEN l_helm ELSE IF tool = "kubectl" THEN l_kubectl ELSE l_oc

\* C22: a tool flag set on a Target of the target map implies that the tool is
\* in the detected-tool set; a Target first appears with no flag set; and a
\* flag becomes set only on the current target, by a recipe line that calls
\* that tool.
C22_ToolFlags ==
    /\ [](\A n \in DOMAIN targets : \A tool \in {"helm", "kubectl", "oc"} :
             ToolFlags(targets[n])[tool] => tool \in detected_tools)
    /\ [][ \A n \in DOMAIN targets' : \A tool \in {"helm", "kubectl", "oc"} :
             ( /\ ToolFlags(targets'[n])[tool]
               /\ n \in DOMAIN targets => ~ToolFlags(targets[n])[tool] )
             => /\ n \in DOMAIN targets
                /\ current_target = MapTarget(n)
                /\ current_target' = current_target
                /\ full_line' = ToolLine(tool) ]_vars

\* C22 witness: foo calls helm, bar calls kubectl, each has its own flag only
C22_Witness ==
    /\ {n_foo, n_bar} \subseteq DOMAIN targets
    /\ ToolFlags(targets[n_foo]) = [helm |-> TRUE, kubectl |-> FALSE, oc |-> FALSE]
    /\ ToolFlags(targets[n_bar]) = [helm |-> FALSE, kubectl |-> TRUE, oc |-> FALSE]
    /\ detected_tools = {"helm", "kubectl"}


(***************************************************************************)
(* makefile_analyzer.py: _identify_deployment_targets                      *)
(***************************************************************************)
w_deploy == <<"d","e","p","l","o","y">>
w_setup == <<"s","e","t","u","p">>
w_bootstrap == <<"b","o","o","t","s","t","r","a","p">>
w_init == <<"i","n","i","t">>
w_undeploy == <<"u","n","d","e","p","l","o","y">>
w_remove == <<"r","e","m","o","v","e">>
w_cleanup == <<"c","l","e","a","n","u","p">>
w_destroy == <<"d","e","s","t","r","o","y">>

INSTALL_KEYWORDS == <<w_install, w_deploy, w_apply, w_setup, w_bootstrap, w_init>>
UNINSTALL_KEYWORDS == <<w_uninstall, w_undeploy, w_remove, w_cleanup, w_destroy, w_delete>>

\* any(keyword in name.lower() for keyword in keywords)
HasKeyword(name, keywords) ==
    \E k \in 1..Len(keywords) : Contains(Lower(name), keywords[k])

\* the candidate list built by the loop over analysis.targets.items()
Candidates(tgts, order, keywords) ==
    SelectSeq(order, LAMBDA n : ~tgts[n].is_pattern_rule /\ HasKeyword(n, keywords))

\* the flow list, had the first candidate been taken without looking for the
\* exact name
FlowRootFirstCandidate(tgts, candidates, exact, old_flow) ==
    IF candidates # <<>> THEN <<candidates[1]>> ELSE old_flow

\* the flow list after "prefer exact match, otherwise use first candidate"
FlowRoot(tgts, candidates, exact, old_flow) ==
    IF exact \in DOMAIN tgts THEN <<exact>>
    ELSE IF candidates # <<>> THEN <<candidates[1]>>
    ELSE old_flow

IdentifyDeploymentTargets ==
    /\ flow_pc = "identify"
    /\ has_install_target' =
          (has_install_target \/ Candidates(targets, target_order, INSTALL_KEYWORDS) # <<>>)
    /\ has_uninstall_target' =
          (has_uninstall_target \/ Candidates(targets, target_order, UNINSTALL_KEYWORDS) # <<>>)
    /\ install_flow' = FlowRoot(targets,
                           Candidates(targets, target_order, INSTALL_KEYWORDS),
                           w_install, install_flow)
    /\ uninstall_flow' = FlowRoot(targets,
                           Candidates(targets, target_order, UNINSTALL_KEYWORDS),
                           w_uninstall, uninstall_flow)
    /\ flow_pc' = "trace_install"
    /\ UNCHANGED <<trace_kind, trace_stack, visited, parser_vars, expander_vars, batch_vars, construction_vars>>

(***************************************************************************)
(* makefile_analyzer.py: _trace_target_flow and _trace_dependencies        *)
(***************************************************************************)
\* "find the most likely target": the first keyword some target name contains,
\* and the first target name that contains it
RECURSIVE MostLikelyTarget(_, _, _)
MostLikelyTarget(order, keywords, k) ==
    IF k > Len(keywords) THEN <<>>
    ELSE IF SelectSeq(order, LAMBDA n : Contains(Lower(n), keywords[k])) # <<>>
    THEN <<SelectSeq(order, LAMBDA n : Contains(Lower(n), keywords[k]))[1]>>
    ELSE MostLikelyTarget(order, keywords, k + 1)

\* the flow list _trace_target_flow starts tracing with
StartFlow(flow_list, order, keywords) ==
    IF flow_list = <<>> THEN MostLikelyTarget(order, keywords, 1) ELSE flow_list

\* the flow list the current trace works on
FlowList == IF trace_kind = "install" THEN install_flow ELSE uninstall_flow

\* flow_list.index(x) + 1
IndexOf(flow_list, x) ==
    CHOOSE i \in 1..Len(flow_list) :
        flow_list[i] = x /\ \A j \in 1..(i - 1) : flow_list[j] # x

\* an insertion that appends the dependency to the list instead of putting it
\* before the target that needs it
InsertAtEnd(flow_list, idx, x) == Append(flow_list, x)

\* flow_list.insert(idx - 1, x)
InsertAt(flow_list, idx, x) ==
    SubSeq(flow_list, 1, idx - 1) \o <<x>> \o SubSeq(flow_list, idx, Len(flow_list))

\* "skip automatic variables and pattern rules"
SkippedDep(dep) == StartsWith(dep, <<"$">>) \/ Contains(dep, <<"%">>)

\* a guard that forgets the "dep not in flow_list" half of the test
ShouldInsertDepAnyway(dep, flow_list, tgts) == dep \in DOMAIN tgts

\* the test that guards the insertion of a dependency
ShouldInsertDep(dep, flow_list, tgts) ==
    dep \notin Range(flow_list) /\ dep \in DOMAIN tgts

\* analyze(): "if self.analysis.has_install_target: self._trace_target_flow('install')"
TraceTargetFlow(kind, has_target, flow_list, keywords, pc_tracing, pc_skip) ==
    IF has_target /\ StartFlow(flow_list, target_order, keywords) # <<>>
    THEN /\ trace_kind' = kind
         /\ trace_stack' = <<[target_name |-> StartFlow(flow_list, target_order, keywords)[1],
                              i |-> 0]>>
         /\ visited' = {}
         /\ flow_pc' = pc_tracing
    ELSE /\ flow_pc' = pc_skip
         /\ UNCHANGED <<trace_kind, trace_stack, visited>>

TraceInstallFlow ==
    /\ flow_pc = "trace_install"
    /\ TraceTargetFlow("install", has_install_target, install_flow, INSTALL_KEYWORDS,
                       "tracing_install", "trace_uninstall")
    /\ install_flow' = IF has_install_target
                       THEN StartFlow(install_flow, target_order, INSTALL_KEYWORDS)
                       ELSE install_flow
    /\ UNCHANGED <<has_install_target, has_uninstall_target, uninstall_flow,
                   parser_vars, expander_vars, batch_vars, construction_vars>>

TraceUninstallFlow ==
    /\ flow_pc = "trace_uninstall"
    /\ TraceTargetFlow("uninstall", has_uninstall_target, uninstall_flow,
                       UNINSTALL_KEYWORDS, "tracing_uninstall", "done")
    /\ uninstall_flow' = IF has_uninstall_target
                         THEN StartFlow(uninstall_flow, target_order, UNINSTALL_KEYWORDS)
                         ELSE uninstall_flow
    /\ UNCHANGED <<has_install_target, has_uninstall_target, install_flow,
                   parser_vars, expander_vars, batch_vars, construction_vars>>

Tracing == flow_pc \in {"tracing_install", "tracing_uninstall"} /\ trace_stack # <<>>

TopTrace == trace_stack[Len(trace_stack)]

\* return from the innermost _trace_dependencies; the outermost return goes
\* back to analyze()
TracePop ==
    /\ trace_stack' = SubSeq(trace_stack, 1, Len(trace_stack) - 1)
    /\ flow_pc' = IF Len(trace_stack) > 1 THEN flow_pc
                  ELSE IF flow_pc = "tracing_install" THEN "trace_uninstall"
                  ELSE "done"

\* entry of _trace_dependencies: the visited test and the lookup of the target
TraceEnter ==
    /\ Tracing
    /\ TopTrace.i = 0
    /\ IF TopTrace.target_name \in visited
       THEN TracePop /\ UNCHANGED visited
       ELSE /\ visited' = visited \cup {TopTrace.target_name}
            /\ IF TopTrace.target_name \notin DOMAIN targets
               THEN TracePop
               ELSE /\ trace_stack' = [trace_stack EXCEPT ![Len(trace_stack)].i = 1]
                    /\ UNCHANGED flow_pc
    /\ UNCHANGED <<has_install_target, has_uninstall_target, install_flow,
                   uninstall_flow, trace_kind, parser_vars, expander_vars, batch_vars, construction_vars>>

\* the flow lists after the traced list became new_flow
FlowListBecomes(new_flow) ==
    /\ install_flow' = IF trace_kind = "install" THEN new_flow ELSE install_flow
    /\ uninstall_flow' = IF trace_kind = "install" THEN uninstall_flow ELSE new_flow

\* one iteration of "for dep in target.dependencies"
TraceDep(target_name, dep) ==
    IF ~SkippedDep(dep) /\ ShouldInsertDep(dep, FlowList, targets)
    THEN /\ FlowListBecomes(InsertAt(FlowList, IndexOf(FlowList, target_name), dep))
         /\ trace_stack' = Append([trace_stack EXCEPT ![Len(trace_stack)].i = @ + 1],
                                  [target_name |-> dep, i |-> 0])
    ELSE /\ trace_stack' = [trace_stack EXCEPT ![Len(trace_stack)].i = @ + 1]
         /\ UNCHANGED <<install_flow, uninstall_flow>>

TraceLoop ==
    /\ Tracing
    /\ TopTrace.i >= 1
    /\ TopTrace.i <= Len(DepsOf(targets[TopTrace.target_name]))
    /\ TraceDep(TopTrace.target_name, DepsOf(targets[TopTrace.target_name])[TopTrace.i])
    /\ UNCHANGED <<has_install_target, has_uninstall_target, flow_pc, trace_kind,
                   visited, parser_vars, expander_vars, batch_vars, construction_vars>>

\* the loop over the dependencies is over
TraceReturn ==
    /\ Tracing
    /\ TopTrace.i >= 1
    /\ TopTrace.i > Len(DepsOf(targets[TopTrace.target_name]))
    /\ TracePop
    /\ UNCHANGED <<has_install_target, has_uninstall_target, install_flow,
                   uninstall_flow, trace_kind, visited, parser_vars, expander_vars, batch_vars, construction_vars>>


(***************************************************************************)
(* Flow tracing: analyze() after _parse_makefile, on parsed rule lines     *)
(***************************************************************************)
\* the whole while loop of _parse_makefile over the logical lines ls
RECURSIVE ParseAll(_, _)
ParseAll(st, ls) ==
    IF ls = <<>> \/ st.parse_fault THEN st
    ELSE ParseAll(ParseLine(st, Head(ls)), Tail(ls))

\* the parser's state after MakefileAnalyzer.__init__
FreshParser ==
    [targets |-> EmptyMap, target_order |-> <<>>, pattern_rules |-> <<>>,
     dep_lists |-> <<>>, variables |-> EmptyMap, includes |-> <<>>,
     detected_tools |-> {}, current_target |-> NoTarget, in_recipe |-> FALSE,
     in_define |-> FALSE, define_var |-> None, conditional_stack |-> <<>>,
     parse_fault |-> FALSE]

n_check == <<"c","h","e","c","k">>
n_lib == <<"l","i","b">>
n_varref == <<"$","(","X",")">>
n_pattern == <<"%",".","o">>

\* the target names of the traced Makefiles, in definition order
FlowOrders ==
    { <<w_install, w_deploy, n_check>>,
      <<w_deploy, n_check, w_remove>>,
      <<w_uninstall, n_check, w_deploy>>,
      <<w_deploy, w_install, n_check>>,
      <<w_uninstall, n_check>>,
      <<n_check>> }

\* the dependency lists a rule line of a traced Makefile may carry
DepChoices ==
    { <<>>, <<n_check>>, <<n_check, w_deploy>>, <<w_deploy, n_check>>,
      <<w_install>>, <<w_deploy>>, <<n_varref, n_pattern, n_check>>,
      <<n_lib, w_remove>> }

\* the Makefile "name_i: deps_i" for i = 1..Len(order)
RuleFile(order, choice) ==
    [i \in 1..Len(order) |-> Rule(order[i], <<":">>, Join(choice[i], <<SP>>))]

\* the lines a traced Makefile may start with: nothing, or a .PHONY line
\* naming the target its last rule defines
PhonyHeads(order) ==
    { <<>>, << w_phony_colon \o <<SP>> \o order[Len(order)] >> }

FlowInit ==
    /\ \E order \in FlowOrders : \E choice \in [1..Len(order) -> DepChoices] :
       \E head \in PhonyHeads(order) :
          /\ ParserIs(ParseAll(FreshParser, head \o RuleFile(order, choice)))
          /\ full_line = RuleFile(order, choice)[Len(order)]
          /\ lines_read = Len(head) + Len(order)
    /\ has_install_target = FALSE
    /\ has_uninstall_target = FALSE
    /\ install_flow = <<>>
    /\ uninstall_flow = <<>>
    /\ flow_pc = "identify"
    /\ trace_kind = "none"
    /\ trace_stack = <<>>
    /\ visited = {}
    /\ ExpanderIdle
    /\ BatchIdle

FlowNext ==
    \/ IdentifyDeploymentTargets
    \/ TraceInstallFlow
    \/ TraceUninstallFlow
    \/ TraceEnter
    \/ TraceLoop
    \/ TraceReturn

\* analyze() runs to its end: no step of it waits for anything
FlowSpec == FlowInit /\ [][FlowNext]_vars /\ WF_vars(FlowNext)

(***************************************************************************)
(* Properties of flow tracing                                              *)
(***************************************************************************)
\* the defined targets that n names as a dependency by a token that neither
\* starts with $ nor contains %
ConcreteDeps(n) ==
    IF n \notin DOMAIN targets THEN {}
    ELSE {d \in Range(DepsOf(targets[n])) :
             d # <<>> /\ d[1] # "$" /\ "%" \notin Range(d) /\ d \in DOMAIN targets}

RECURSIVE ReachClosure(_)
ReachClosure(S) ==
    LET T == S \cup UNION {ConcreteDeps(n) : n \in S}
    IN IF T = S THEN S ELSE ReachClosure(T)

\* a traced flow lists no name twice and lists exactly what its root reaches
FlowIsReachableSet(flow) ==
    flow # <<>> =>
        /\ Cardinality(Range(flow)) = Len(flow)
        /\ \E r \in Range(flow) : Range(flow) = ReachClosure({r})

InstallTraced == flow_pc \in {"trace_uninstall", "tracing_uninstall", "done"}

\* the root _identify_deployment_targets picked is in a flow
RootKept(flow, exact, keywords) ==
    LET root == FlowRoot(targets, Candidates(targets, target_order, keywords), exact, <<>>)
    IN root # <<>> => /\ root[1] \in Range(flow)
                      /\ Range(flow) = ReachClosure({root[1]})

IsSpecExample ==
    /\ DOMAIN targets = {w_install, w_deploy, n_check}
    /\ DepsOf(targets[w_install]) = <<n_check, w_deploy>>
    /\ DepsOf(targets[w_deploy]) = <<n_check>>
    /\ DepsOf(targets[n_check]) = <<>>

\* C3: for every target graph, cycles and self-dependencies included, tracing
\* ends; a traced flow lists each name at most once and lists exactly the root
\* and the defined targets reachable from it through tokens that neither start
\* with $ nor contain %; the graph install->[check,deploy], deploy->[check],
\* check->[] gives [check, deploy, install].
C3_TraceFlow ==
    /\ <>(flow_pc = "done")
    /\ [](InstallTraced =>
            /\ FlowIsReachableSet(install_flow)
            /\ RootKept(install_flow, w_install, INSTALL_KEYWORDS)
            /\ (IsSpecExample => install_flow = <<n_check, w_deploy, w_install>>))
    /\ [](flow_pc = "done" =>
            /\ FlowIsReachableSet(uninstall_flow)
            /\ RootKept(uninstall_flow, w_uninstall, UNINSTALL_KEYWORDS))

\* C3 witness: install -> [check, deploy], deploy -> [install] is a cycle, and
\* its trace ended with each of the three names listed once
C3_Witness ==
    /\ flow_pc = "done"
    /\ w_install \in DOMAIN targets /\ w_deploy \in DOMAIN targets
    /\ DepsOf(targets[w_install]) = <<n_check, w_deploy>>
    /\ DepsOf(targets[w_deploy]) = <<w_install>>
    /\ install_flow = <<n_check, w_deploy, w_install>>

(***************************************************************************)
(* variable_expander.py: VariableExpansion, cache key, patterns            *)
(***************************************************************************)
\* VariableExpansion(original=..., expanded=..., <four sets>)
VariableExpansion(original, expanded, variables_used, functions_used, automatic_vars_used, unexpanded_vars) ==
    [original |-> original, expanded |-> expanded,
     variables_used |-> variables_used, functions_used |-> functions_used,
     automatic_vars_used |-> automatic_vars_used, unexpanded_vars |-> unexpanded_vars]

max_recursion_depth == 50

\* dependencies=None: the argument was left out (no list of texts equals it)
NoDependencies == <<None>>

\* "dependencies or []"
DepsOrEmpty(dependencies) == IF dependencies = NoDependencies THEN <<>> ELSE dependencies

w_None == <<"N","o","n","e">>

\* str(target_name) inside the f-string
StrOf(x) == IF x = None THEN w_None ELSE x

\* f"{text}:{target_name}:{':'.join(dependencies or [])}"
cache_key(text, target_name, dependencies) ==
    text \o <<":">> \o StrOf(target_name) \o <<":">>
         \o Join(DepsOrEmpty(dependencies), <<":">>)

\* "if target_name:" is false for None and for the empty text
Truthy(x) == x # None /\ x # <<>>

\* position of the first character c of s at or after i, 0 if there is none
FirstAt(s, c, i) ==
    LET hits == {k \in i..Len(s) : s[k] = c}
    IN IF hits = {} THEN 0 ELSE CHOOSE k \in hits : \A j \in hits : k <= j

\* end of the longest run of characters of set S that starts at i (i - 1 if none)
RECURSIVE RunEnd(_, _, _)
RunEnd(s, S, i) == IF i <= Len(s) /\ s[i] \in S THEN RunEnd(s, S, i + 1) ELSE i - 1

AutoChars == {"@", "<", "^", "?", "*", "+", "|", "%"}

\* the pattern does not match here
NoMatch == [start |-> 0, end |-> 0, var_name |-> <<>>]

\* a match of \$\(([^)]+)\) or \$\{([^}]+)\} at i, closed by the character close
BracketMatch(s, i, close) ==
    IF FirstAt(s, close, i + 2) > i + 2
    THEN [start |-> i, end |-> FirstAt(s, close, i + 2),
          var_name |-> SubSeq(s, i + 2, FirstAt(s, close, i + 2) - 1)]
    ELSE NoMatch

\* a match of \$([a-zA-Z_][a-zA-Z0-9_]*|\$|[@<^?*+|%]) at i
BareMatch(s, i) ==
    IF s[i + 1] \in (WordChars \ DigitChars)
    THEN [start |-> i, end |-> RunEnd(s, WordChars, i + 1),
          var_name |-> SubSeq(s, i + 1, RunEnd(s, WordChars, i + 1))]
    ELSE IF s[i + 1] = "$" \/ s[i + 1] \in AutoChars
    THEN [start |-> i, end |-> i + 1, var_name |-> <<s[i + 1]>>]
    ELSE NoMatch

\* self.var_pattern matched at position i of s
VarMatchAt(s, i) ==
    IF s[i] # "$" \/ i = Len(s) THEN NoMatch
    ELSE IF s[i + 1] = "(" THEN BracketMatch(s, i, ")")
    ELSE IF s[i + 1] = "{" THEN BracketMatch(s, i, "}")
    ELSE BareMatch(s, i)

\* list(self.var_pattern.finditer(s)), scanning from position i; m is the
\* outcome of the match attempt at i
RECURSIVE VarMatchesFrom(_, _)
VarMatchesFrom(s, i) ==
    IF i > Len(s) THEN <<>>
    ELSE CHOOSE found \in
            { IF m = NoMatch THEN VarMatchesFrom(s, i + 1)
              ELSE <<m>> \o VarMatchesFrom(s, m.end + 1) : m \in {VarMatchAt(s, i)} } : TRUE

VarMatches(s) == VarMatchesFrom(s, 1)

\* match.group(0)
Group0(s, m) == SubSeq(s, m.start, m.end)

\* text[:match.start()] + value + text[match.end():]
Splice(s, m, value) == SubSeq(s, 1, m.start - 1) \o value \o From(s, m.end + 1)

\* the keys of AUTOMATIC_VARIABLES, in the dictionary's order
AUTOMATIC_VARIABLES ==
    << <<"$","@">>, <<"$","<">>, <<"$","^">>, <<"$","?">>, <<"$","*">>,
       <<"$","+">>, <<"$","|">>, <<"$","%">>,
       <<"$","(","@","D",")">>, <<"$","(","@","F",")">>,
       <<"$","(","<","D",")">>, <<"$","(","<","F",")">>,
       <<"$","(","^","D",")">>, <<"$","(","^","F",")">>,
       <<"$","(","?","D",")">>, <<"$","(","?","F",")">>,
       <<"$","(","*","D",")">>, <<"$","(","*","F",")">> >>

(***************************************************************************)
(* variable_expander.py: _expand_automatic_variables                       *)
(***************************************************************************)
\* pathlib on a relative path without empty, "." or ".." components:
\* Path(p).name, str(Path(p).parent) and Path(p).stem
PathName(p) == From(p, RFind(p, <<"/">>) + 1)

PathParent(p) ==
    IF RFind(p, <<"/">>) = 0 THEN <<".">>
    ELSE IF RFind(p, <<"/">>) = 1 THEN <<"/">>
    ELSE SubSeq(p, 1, RFind(p, <<"/">>) - 1)

\* name[:i] if 0 < i < len(name) - 1 else name, with i = name.rfind('.')
StemOfName(name) ==
    IF RFind(name, <<".">>) > 1 /\ RFind(name, <<".">>) < Len(name)
    THEN SubSeq(name, 1, RFind(name, <<".">>) - 1)
    ELSE name

\* _get_stem(target_name)
GetStem(target_name) == StemOfName(PathName(target_name))

AutoEntry(var, value) == [var |-> var, value |-> value]

\* the dictionary "expansions", in insertion order
AutoExpansions(target_name, dependencies) ==
    << AutoEntry(<<"$","@">>, target_name),
       AutoEntry(<<"$","<">>, IF dependencies # <<>> THEN dependencies[1] ELSE <<>>),
       AutoEntry(<<"$","^">>, Join(dependencies, <<SP>>)),
       AutoEntry(<<"$","?">>, Join(dependencies, <<SP>>)),
       AutoEntry(<<"$","*">>, GetStem(target_name)),
       AutoEntry(<<"$","+">>, Join(dependencies, <<SP>>)),
       AutoEntry(<<"$","|">>, <<>>),
       AutoEntry(<<"$","%">>, <<>>) >>
    \o (IF Truthy(target_name)
        THEN << AutoEntry(<<"$","(","@","D",")">>, PathParent(target_name)),
                AutoEntry(<<"$","(","@","F",")">>, PathName(target_name)) >>
        ELSE <<>>)
    \o (IF dependencies # <<>>
        THEN << AutoEntry(<<"$","(","<","D",")">>, PathParent(dependencies[1])),
                AutoEntry(<<"$","(","<","F",")">>, PathName(dependencies[1])) >>
        ELSE <<>>)

\* "for var, value in expansions.items(): if var in text: ..." from entry k on;
\* yields the text and the automatic variables recorded
RECURSIVE AutoLoop(_, _, _, _)
AutoLoop(text, used, exps, k) ==
    IF k > Len(exps) THEN [text |-> text, used |-> used]
    ELSE IF Contains(text, exps[k].var)
    THEN AutoLoop(Replace(text, exps[k].var, exps[k].value),
                  used \cup {exps[k].var}, exps, k + 1)
    ELSE AutoLoop(text, used, exps, k + 1)

ExpandAutomaticVariables(text, target_name, dependencies) ==
    AutoLoop(text, {}, AutoExpansions(target_name, dependencies), 1)

(***************************************************************************)
(* variable_expander.py: _expand_function_calls, _evaluate_function        *)
(***************************************************************************)
w_shell == <<"s","h","e","l","l">>
w_or == <<"o","r">>
w_and == <<"a","n","d">>
w_strip == <<"s","t","r","i","p">>
w_value == <<"v","a","l","u","e">>
w_eval == <<"e","v","a","l">>
w_origin == <<"o","r","i","g","i","n">>
w_flavor == <<"f","l","a","v","o","r">>
w_error == <<"e","r","r","o","r">>
w_warning == <<"w","a","r","n","i","n","g">>
w_info == <<"i","n","f","o">>
w_realpath == <<"r","e","a","l","p","a","t","h">>

\* the functions of FUNCTION_PATTERNS with the pattern \$\(NAME\s+([^)]+)\) whose
\* evaluation is shell's placeholder, strip() or the generic placeholder, in
\* the dictionary's order (the expanded texts name no other function)
FUNCTION_PATTERNS ==
    <<w_shell, w_or, w_and, w_strip, w_value, w_eval, w_origin, w_flavor,
      w_error, w_warning, w_info, w_realpath>>

\* the function's regex does not match here
NoFunctionMatch == [start |-> 0, end |-> 0, group |-> <<>>]

\* the span and the group of \$\(NAME\s+([^)]+)\) once "$(NAME" was seen at i,
\* the whitespace run goes from j to e and the first ")" at or after j is at q
FunctionGroup(s, i, j, e, q) ==
    IF e < j \/ q = 0 THEN NoFunctionMatch
    ELSE IF q > e + 1 THEN [start |-> i, end |-> q, group |-> SubSeq(s, e + 1, q - 1)]
    ELSE IF e > j THEN [start |-> i, end |-> q, group |-> <<s[e]>>]
    ELSE NoFunctionMatch

\* the function's regex (re.IGNORECASE) matched at position i of s
FunctionMatchAt(s, func_name, i) ==
    IF /\ StartsWithAt(s, <<"$", "(">>, i)
       /\ i + 1 + Len(func_name) <= Len(s)
       /\ Lower(SubSeq(s, i + 2, i + 1 + Len(func_name))) = func_name
    THEN FunctionGroup(s, i, i + 2 + Len(func_name),
                       RunEnd(s, Whitespace, i + 2 + Len(func_name)),
                       FirstAt(s, ")", i + 2 + Len(func_name)))
    ELSE NoFunctionMatch

\* _evaluate_function(func_name, (group,))
EvaluateFunction(func_name, group) ==
    IF func_name = w_shell THEN <<"<">> \o w_shell \o <<":">> \o Strip(group) \o <<">">>
    ELSE IF func_name = w_strip THEN Strip(group)
    ELSE <<"<">> \o func_name \o <<":">> \o group \o <<">">>

\* s with every match of the function's regex replaced by its evaluation
RECURSIVE ReplaceFunction(_, _, _)
ReplaceFunction(s, func_name, i) ==
    IF i > Len(s) THEN <<>>
    ELSE CHOOSE replaced \in
            { IF m = NoFunctionMatch
              THEN <<s[i]>> \o ReplaceFunction(s, func_name, i + 1)
              ELSE EvaluateFunction(func_name, m.group)
                   \o ReplaceFunction(s, func_name, m.end + 1) :
              m \in {FunctionMatchAt(s, func_name, i)} } : TRUE

FunctionMatches(s, func_name) ==
    \E i \in 1..Len(s) : FunctionMatchAt(s, func_name, i) # NoFunctionMatch

\* "for func_name, regex in self.function_regexes.items()" from entry k on;
\* yields the text and the functions recorded
RECURSIVE FunctionLoop(_, _, _)
FunctionLoop(text, used, k) ==
    IF k > Len(FUNCTION_PATTERNS) THEN [text |-> text, used |-> used]
    ELSE IF FunctionMatches(text, FUNCTION_PATTERNS[k])
    THEN CHOOSE done \in
            { FunctionLoop(t, used \cup {FUNCTION_PATTERNS[k]}, k + 1) :
              t \in {ReplaceFunction(text, FUNCTION_PATTERNS[k], 1)} } : TRUE
    ELSE FunctionLoop(text, used, k + 1)

ExpandFunctionCalls(text) == FunctionLoop(text, {}, 1)

(***************************************************************************)
(* variable_expander.py: __init__, _apply_conditional_defaults             *)
(***************************************************************************)
n_METRIC_UI_CHART_PATH == <<"M","E","T","R","I","C","_","U","I","_","C","H","A","R","T","_","P","A","T","H">>
n_PROMETHEUS_CHART_PATH == <<"P","R","O","M","E","T","H","E","U","S","_","C","H","A","R","T","_","P","A","T","H">>
n_METRIC_UI_RELEASE_NAME == <<"M","E","T","R","I","C","_","U","I","_","R","E","L","E","A","S","E","_","N","A","M","E">>
n_PROMETHEUS_RELEASE_NAME == <<"P","R","O","M","E","T","H","E","U","S","_","R","E","L","E","A","S","E","_","N","A","M","E">>
n_REGION == <<"R","E","G","I","O","N">>
w_metric_ui == <<"m","e","t","r","i","c","-","u","i">>
w_prometheus == <<"p","r","o","m","e","t","h","e","u","s">>
w_us_east_1 == <<"u","s","-","e","a","s","t","-","1">>

\* the dictionary "defaults", in insertion order
ConditionalDefaults ==
    << [var_name |-> n_METRIC_UI_CHART_PATH, default_value |-> w_metric_ui],
       [var_name |-> n_PROMETHEUS_CHART_PATH, default_value |-> w_prometheus],
       [var_name |-> n_METRIC_UI_RELEASE_NAME, default_value |-> w_metric_ui],
       [var_name |-> n_PROMETHEUS_RELEASE_NAME, default_value |-> w_prometheus],
       [var_name |-> n_REGION, default_value |-> w_us_east_1] >>

\* "if var_name not in self.variables: self.variables[var_name] = default_value"
RECURSIVE DefaultsLoop(_, _)
DefaultsLoop(vs, k) ==
    IF k > Len(ConditionalDefaults) THEN vs
    ELSE IF ConditionalDefaults[k].var_name \in DOMAIN vs THEN DefaultsLoop(vs, k + 1)
    ELSE DefaultsLoop(Put(vs, ConditionalDefaults[k].var_name,
                          ConditionalDefaults[k].default_value), k + 1)

ApplyConditionalDefaults(vs) == DefaultsLoop(vs, 1)

\* "environment or dict(os.environ)": None and the empty dict are both falsy
EnvironmentOr(supplied) ==
    IF supplied = None THEN process_environment
    ELSE IF DOMAIN supplied = {} THEN process_environment
    ELSE supplied

\* base_path, the directory of the Makefile
base_path == <<"/","w">>

(***************************************************************************)
(* variable_expander.py: _get_variable_value                               *)
(***************************************************************************)
n_MAKE == <<"M","A","K","E">>
n_MAKEFILE_LIST == <<"M","A","K","E","F","I","L","E","_","L","I","S","T">>
n_CURDIR == <<"C","U","R","D","I","R">>
n_DEFAULT_GOAL == <<".","D","E","F","A","U","L","T","_","G","O","A","L">>
w_Makefile == <<"M","a","k","e","f","i","l","e">>
w_default == <<"d","e","f","a","u","l","t">>
n_LLM == <<"L","L","M">>
n_SAFETY == <<"S","A","F","E","T","Y">>
n_SAFETY_TOLERATION == <<"S","A","F","E","T","Y","_","T","O","L","E","R","A","T","I","O","N">>
n_LLM_TOLERATION == <<"L","L","M","_","T","O","L","E","R","A","T","I","O","N">>
n_EXTRA_HELM_ARGS == <<"E","X","T","R","A","_","H","E","L","M","_","A","R","G","S">>

\* the names with a built-in value
SpecialVariables == {n_MAKE, n_MAKEFILE_LIST, n_CURDIR, n_DEFAULT_GOAL}

SpecialValue(var_name) ==
    IF var_name = n_MAKE THEN w_make
    ELSE IF var_name = n_MAKEFILE_LIST THEN w_Makefile
    ELSE IF var_name = n_CURDIR THEN base_path
    ELSE w_default

\* the names "meant to be undefined by default"
IntentionallyUndefined ==
    {n_LLM, n_SAFETY, n_SAFETY_TOLERATION, n_LLM_TOLERATION, n_EXTRA_HELM_ARGS}

\* f"${{{var_name}}}"
Braced(var_name) == <<"$", "{">> \o var_name \o <<"}">>

\* what one lookup yields: the text put in place of the reference, and whether
\* the name is added to variables_used and to unexpanded_vars
Lookup(value, used, unexpanded) ==
    [value |-> value, used |-> used, unexpanded |-> unexpanded]

\* _get_variable_value that shows a name in progress as ${NAME} without adding
\* it to unexpanded_vars
GetVariableValueUnmarked(var_name, vs, env, stack) ==
    IF var_name = <<"$">> THEN Lookup(<<"$">>, FALSE, FALSE)
    ELSE IF var_name \in stack THEN Lookup(Braced(var_name), FALSE, FALSE)
    ELSE IF var_name \in DOMAIN vs THEN Lookup(vs[var_name], TRUE, FALSE)
    ELSE IF var_name \in DOMAIN env THEN Lookup(env[var_name], TRUE, FALSE)
    ELSE IF var_name \in SpecialVariables THEN Lookup(SpecialValue(var_name), TRUE, FALSE)
    ELSE IF var_name \in IntentionallyUndefined THEN Lookup(Braced(var_name), TRUE, FALSE)
    ELSE Lookup(Braced(var_name), TRUE, TRUE)

\* _get_variable_value for a name whose value needs no nested expand() call
GetVariableValue(var_name, vs, env, stack) ==
    IF var_name = <<"$">> THEN Lookup(<<"$">>, FALSE, FALSE)
    ELSE IF var_name \in stack THEN Lookup(Braced(var_name), FALSE, TRUE)
    ELSE IF var_name \in DOMAIN vs THEN Lookup(vs[var_name], TRUE, FALSE)
    ELSE IF var_name \in DOMAIN env THEN Lookup(env[var_name], TRUE, FALSE)
    ELSE IF var_name \in SpecialVariables THEN Lookup(SpecialValue(var_name), TRUE, FALSE)
    ELSE IF var_name \in IntentionallyUndefined THEN Lookup(Braced(var_name), TRUE, FALSE)
    ELSE Lookup(Braced(var_name), TRUE, TRUE)

\* the lookup reaches "expanded = self.expand(value)"
NeedsExpansion(var_name, vs, stack) ==
    /\ var_name # <<"$">>
    /\ var_name \notin stack
    /\ var_name \in DOMAIN vs
    /\ "$" \in Range(vs[var_name])

(***************************************************************************)
(* variable_expander.py: expand and _expand_variable_references            *)
(***************************************************************************)
\* an activation of expand(): its arguments, how it was entered ("cached" by a
\* cache hit, "capped" by the depth test, "running" otherwise), the result
\* under construction, the matches still to replace (the last one first) and
\* the match whose value is being expanded by the activation above
Frame(text, target_name, dependencies, status, expanded, matches, result) ==
    [text |-> text, target_name |-> target_name, dependencies |-> dependencies,
     status |-> status, original |-> result.original, expanded |-> expanded,
     matches |-> matches, pending |-> NoMatch,
     variables_used |-> result.variables_used,
     functions_used |-> result.functions_used,
     automatic_vars_used |-> result.automatic_vars_used,
     unexpanded_vars |-> result.unexpanded_vars]

\* "if target_name: result.expanded = self._expand_automatic_variables(...)"
AutomaticPass(text, target_name, dependencies) ==
    IF Truthy(target_name)
    THEN ExpandAutomaticVariables(text, target_name, DepsOrEmpty(dependencies))
    ELSE [text |-> text, used |-> {}]

\* the activation after the automatic pass a and the function pass f
RunningFrame(text, target_name, dependencies, a, f) ==
    Frame(text, target_name, dependencies, "running", f.text, VarMatches(f.text),
          VariableExpansion(text, f.text, {}, f.used, a.used, {}))

AfterAutomaticPass(text, target_name, dependencies, a) ==
    CHOOSE frame \in
        { RunningFrame(text, target_name, dependencies, a, f) :
          f \in {ExpandFunctionCalls(a.text)} } : TRUE

\* expand() that gives up when max_recursion_depth names are in progress,
\* not when more than max_recursion_depth are
EnterFrameCapEarlier(cache, stack, text, target_name, dependencies) ==
    IF cache_key(text, target_name, dependencies) \in DOMAIN cache
    THEN Frame(text, target_name, dependencies, "cached",
               cache[cache_key(text, target_name, dependencies)].expanded, <<>>,
               cache[cache_key(text, target_name, dependencies)])
    ELSE IF Cardinality(stack) >= max_recursion_depth
    THEN Frame(text, target_name, dependencies, "capped", text, <<>>,
               VariableExpansion(text, text, {}, {}, {}, {text}))
    ELSE CHOOSE frame \in
            { AfterAutomaticPass(text, target_name, dependencies, a) :
              a \in {AutomaticPass(text, target_name, dependencies)} } : TRUE

\* the activation a call of expand(text, target_name, dependencies) starts
\* with, while the names of stack are in progress
EnterFrame(cache, stack, text, target_name, dependencies) ==
    IF cache_key(text, target_name, dependencies) \in DOMAIN cache
    THEN Frame(text, target_name, dependencies, "cached",
               cache[cache_key(text, target_name, dependencies)].expanded, <<>>,
               cache[cache_key(text, target_name, dependencies)])
    ELSE IF Cardinality(stack) > max_recursion_depth
    THEN Frame(text, target_name, dependencies, "capped", text, <<>>,
               VariableExpansion(text, text, {}, {}, {}, {text}))
    ELSE CHOOSE frame \in
            { AfterAutomaticPass(text, target_name, dependencies, a) :
              a \in {AutomaticPass(text, target_name, dependencies)} } : TRUE

\* the VariableExpansion an activation returns
ResultOf(f) ==
    VariableExpansion(f.original, f.expanded, f.variables_used, f.functions_used,
                      f.automatic_vars_used, f.unexpanded_vars)

\* the innermost activation and the match its loop handles next
\* ("for match in reversed(matches)")
TopFrame == frames[Len(frames)]

NextMatch == TopFrame.matches[Len(TopFrame.matches)]

\* the loop of _expand_variable_references has an iteration to run
InLoop ==
    /\ flow_pc \in {"expand", "expand_all"}
    /\ frames # <<>>
    /\ TopFrame.status = "running"
    /\ TopFrame.matches # <<>>

\* "if match.group(0) in self.AUTOMATIC_VARIABLES: continue"
IsAutomatic(f, m) == Group0(f.expanded, m) \in Range(AUTOMATIC_VARIABLES)

ButLast(s) == SubSeq(s, 1, Len(s) - 1)

\* the activation after the iteration for match m replaced it by the lookup r
AfterLookup(f, m, r) ==
    [f EXCEPT !.expanded = Splice(f.expanded, m, r.value),
              !.matches = ButLast(f.matches),
              !.variables_used = IF r.used THEN @ \cup {m.var_name} ELSE @,
              !.unexpanded_vars = IF r.unexpanded THEN @ \cup {m.var_name} ELSE @]

\* one iteration of the loop of _expand_variable_references
AfterIteration(f, m) ==
    IF IsAutomatic(f, m) THEN [f EXCEPT !.matches = ButLast(f.matches)]
    ELSE AfterLookup(f, m, GetVariableValue(m.var_name, self_variables, environment,
                                            recursion_stack))

\* the activation while expand(value) runs for its match m
Waiting(f, m) ==
    [f EXCEPT !.pending = m, !.variables_used = @ \cup {m.var_name}]

\* the activation after expand(value) returned result for its pending match
AfterExpansion(f, result) ==
    [f EXCEPT !.expanded = Splice(f.expanded, f.pending, result.expanded),
              !.matches = ButLast(f.matches),
              !.pending = NoMatch,
              !.variables_used = @ \cup result.variables_used,
              !.functions_used = @ \cup result.functions_used,
              !.automatic_vars_used = @ \cup result.automatic_vars_used,
              !.unexpanded_vars = @ \cup result.unexpanded_vars]

\* the arguments of a call as a triple
Triple(text, target_name, dependencies) ==
    [text |-> text, target_name |-> target_name, dependencies |-> dependencies]

\* a top-level call expand(text, target_name, dependencies)
Expand(c) ==
    /\ flow_pc = "expand"
    /\ frames = <<>>
    /\ calls_made < MaxCalls
    /\ frames' = <<EnterFrame(expansion_cache, recursion_stack,
                              c.text, c.target_name, c.dependencies)>>
    /\ call' = c
    /\ returned' = None
    /\ calls_made' = calls_made + 1
    /\ UNCHANGED <<self_variables, environment, expansion_cache, recursion_stack,
                   stored_by, parser_vars, flow_vars, batch_vars, construction_vars>>

\* an iteration of _expand_variable_references whose lookup needs no nested call
ExpandVariableReference ==
    /\ InLoop
    /\ \/ IsAutomatic(TopFrame, NextMatch)
       \/ ~NeedsExpansion(NextMatch.var_name, self_variables, recursion_stack)
    /\ frames' = [frames EXCEPT ![Len(frames)] = AfterIteration(TopFrame, NextMatch)]
    /\ UNCHANGED <<self_variables, environment, expansion_cache, recursion_stack,
                   call, returned, calls_made, stored_by, parser_vars, flow_vars, batch_vars, construction_vars>>

\* an iteration whose lookup adds the name to the recursion stack and calls
\* self.expand(value)
ExpandValue ==
    /\ InLoop
    /\ ~IsAutomatic(TopFrame, NextMatch)
    /\ NeedsExpansion(NextMatch.var_name, self_variables, recursion_stack)
    /\ recursion_stack' = recursion_stack \cup {NextMatch.var_name}
    /\ frames' = Append([frames EXCEPT ![Len(frames)] = Waiting(TopFrame, NextMatch)],
                        EnterFrame(expansion_cache,
                                   recursion_stack \cup {NextMatch.var_name},
                                   self_variables[NextMatch.var_name],
                                   None, NoDependencies))
    /\ UNCHANGED <<self_variables, environment, expansion_cache, call, returned,
                   calls_made, stored_by, parser_vars, flow_vars, batch_vars, construction_vars>>

\* "self.expansion_cache[cache_key] = result" of an activation that ran
StoreResult(f) ==
    IF f.status = "running"
    THEN /\ expansion_cache' = Put(expansion_cache,
                                   cache_key(f.text, f.target_name, f.dependencies),
                                   ResultOf(f))
         /\ stored_by' = Put(stored_by,
                             cache_key(f.text, f.target_name, f.dependencies),
                             Triple(f.text, f.target_name, DepsOrEmpty(f.dependencies)))
    ELSE UNCHANGED <<expansion_cache, stored_by>>

\* a return to _get_variable_value without the "finally" that removes the name
ReturnToKeepingName(result) ==
    IF Len(frames) = 1
    THEN /\ returned' = result
         /\ frames' = <<>>
         /\ UNCHANGED recursion_stack
    ELSE /\ frames' = Append(SubSeq(frames, 1, Len(frames) - 2),
                             AfterExpansion(frames[Len(frames) - 1], result))
         /\ UNCHANGED recursion_stack
         /\ UNCHANGED returned

\* the caller of the innermost activation gets result: the top-level caller, or
\* _get_variable_value, which merges it and removes the name ("finally")
ReturnTo(result) ==
    IF Len(frames) = 1
    THEN /\ returned' = result
         /\ frames' = <<>>
         /\ UNCHANGED recursion_stack
    ELSE /\ frames' = Append(SubSeq(frames, 1, Len(frames) - 2),
                             AfterExpansion(frames[Len(frames) - 1], result))
         /\ recursion_stack' = recursion_stack \ {frames[Len(frames) - 1].pending.var_name}
         /\ UNCHANGED returned

\* an activation of expand() returns
ExpandReturn ==
    /\ flow_pc \in {"expand", "expand_all"}
    /\ frames # <<>>
    /\ TopFrame.status # "running" \/ TopFrame.matches = <<>>
    /\ StoreResult(TopFrame)
    /\ ReturnTo(ResultOf(TopFrame))
    /\ UNCHANGED <<self_variables, environment, call, calls_made,
                   parser_vars, flow_vars, batch_vars, construction_vars>>

(***************************************************************************)
(* Expansion: engines built on parsed Makefiles, and the calls made on them *)
(***************************************************************************)
n_X == <<"X">>
n_Y == <<"Y">>
n_HOME == <<"H","O","M","E">>
n_UNDEF == <<"U","N","D","E","F">>

\* "$(NAME)"
Ref(var_name) == <<"$", "(">> \o var_name \o <<")">>

\* the i-th name of a generated chain: V1, V2, ...
VarName(i) == <<"V">> \o NumStr(i)

\* V1 = $(V2), ..., V<len-1> = $(V<len>), V<len> = x
ChainFile(len) ==
    [i \in 1..len |-> Assign(VarName(i), op_plain,
                             IF i < len THEN Ref(VarName(i + 1)) ELSE <<"x">>)]

\* V1 = $(V2), ..., V<len> = $(V1)
CycleFile(len) ==
    [i \in 1..len |-> Assign(VarName(i), op_plain, Ref(VarName((i % len) + 1)))]

\* the chain lengths and cycle lengths around the depth cap
ChainLengths == {max_recursion_depth + 1, max_recursion_depth + 2}
CycleLengths == {1, max_recursion_depth, max_recursion_depth + 1}

mk_circular == << Assign(n_A, op_plain, Ref(n_B)), Assign(n_B, op_plain, Ref(n_A)) >>

mk_precedence ==
    << Assign(n_MAKE, op_plain, <<"m","y","m","a","k","e">>),
       Assign(n_LLM, op_plain, <<"o","n">>),
       Assign(n_HOME, op_plain, <<"/","t","b","l">>),
       Assign(n_X, op_shell, <<"l","s">>),
       Assign(n_Y, op_plain, Ref(w_shell \o <<SP, "l", "s">>)) >>

\* an environment passed to the constructor
env_names ==
    Put(Put(Put(Put(EmptyMap, n_MAKE, <<"g","m","a","k","e">>),
                n_LLM, <<"e","n","v","l","l","m">>),
            n_HOME, <<"/","h","o","m","e">>),
        n_REGION, <<"e","u">>)

\* the Makefile an engine is built on and the environment argument it gets
Setup(makefile, supplied) == [makefile |-> makefile, supplied |-> supplied]

Setups ==
    {Setup(mk, env) : mk \in {<<>>, mk_circular, mk_precedence},
                      env \in {None, env_names}}
    \cup {Setup(ChainFile(len), None) : len \in ChainLengths}
    \cup {Setup(CycleFile(len), None) : len \in CycleLengths}

x_automatic == <<"$","@"," ","$","<"," ","$","^">>
x_newer == <<"$","?"," ","$","+"," ","$","*">>
x_dirs == <<"$","(","@","D",")"," ","$","(","^","D",")">>
x_lookup == <<"$","(","M","A","K","E",")"," ","$","{","L","L","M","}"," ","$","H","O","M","E"," ","$","(","C","U","R","D","I","R",")">>
x_undefined == <<"$","(","U","N","D","E","F",")"," ","$","(","R","E","G","I","O","N",")"," ","$","$">>
x_shell == <<"$","(","s","h","e","l","l"," ","l","s",")">>
x_shell_nested == <<"$","(","s","h","e","l","l"," ","e","c","h","o"," ","$","(","X",")",")">>

\* texts expanded without a target context
PlainTexts ==
    { Ref(n_A), Ref(n_B), Ref(n_Y), Ref(VarName(1)), Ref(VarName(2)),
      Ref(VarName(max_recursion_depth + 2)),
      x_lookup, x_undefined, x_shell, x_shell_nested }

\* texts expanded in each target context
AutomaticTexts == {x_automatic, x_newer, x_dirs}

n_app_o == <<"a","p","p",".","o">>
n_app_c == <<"a","p","p",".","c">>
n_app_h == <<"a","p","p",".","h">>
n_obj_app_o == <<"o","b","j","/","a","p","p",".","o">>
n_src_app_c == <<"s","r","c","/","a","p","p",".","c">>
n_t == <<"t">>

\* target_name and dependencies of a call; the first is a call without them
Contexts ==
    { [target_name |-> None, dependencies |-> NoDependencies],
      [target_name |-> w_None, dependencies |-> <<>>],
      [target_name |-> n_app_o, dependencies |-> <<n_app_c, n_app_h>>],
      [target_name |-> n_obj_app_o, dependencies |-> <<n_src_app_c>>],
      [target_name |-> n_t, dependencies |-> << <<"a",":","b">> >>],
      [target_name |-> n_t, dependencies |-> << <<"a">>, <<"b">> >>] }

Calls ==
    {Triple(text, None, NoDependencies) : text \in PlainTexts}
    \cup {Triple(text, c.target_name, c.dependencies) :
             text \in AutomaticTexts, c \in Contexts}

\* the analysis is finished and the engine is constructed on its variables
ExpandInit ==
    /\ \E s \in Setups :
          /\ ParserIs(ParseAll(FreshParser, s.makefile))
          /\ full_line = IF s.makefile = <<>> THEN None ELSE s.makefile[Len(s.makefile)]
          /\ lines_read = Len(s.makefile)
          /\ process_environment = os_environ
          /\ environment_argument = Argument(s.supplied)
          /\ environment = EnvironmentOr(s.supplied)
    /\ self_variables = ApplyConditionalDefaults(variables)
    /\ has_install_target = FALSE
    /\ has_uninstall_target = FALSE
    /\ install_flow = <<>>
    /\ uninstall_flow = <<>>
    /\ flow_pc = "expand"
    /\ trace_kind = "none"
    /\ trace_stack = <<>>
    /\ visited = {}
    /\ expansion_cache = EmptyMap
    /\ recursion_stack = {}
    /\ frames = <<>>
    /\ call = None
    /\ returned = None
    /\ calls_made = 0
    /\ stored_by = EmptyMap
    /\ BatchIdle

\* the steps an expand() call takes by itself once it is made
ExpandRun ==
    \/ ExpandVariableReference
    \/ ExpandValue
    \/ ExpandReturn

ExpandNext ==
    \/ \E c \in Calls : Expand(c)
    \/ ExpandVariableReference
    \/ ExpandValue
    \/ ExpandReturn

ExpandSpec == ExpandInit /\ [][ExpandNext]_vars

\* a call that was made runs to its return: expand() waits for nothing
ExpandLiveSpec == ExpandInit /\ [][ExpandNext]_vars /\ WF_vars(ExpandRun)

(***************************************************************************)
(* Properties of expansion: circular references and the depth cap          *)
(***************************************************************************)
\* the names a value refers to
RefNames(value) == {VarMatches(value)[k].var_name : k \in 1..Len(VarMatches(value))}

\* S and the names the values of the names of S refer to
RefsFrom(vs, S) == S \cup UNION {RefNames(vs[n]) : n \in S \cap DOMAIN vs}

\* the names reachable from the names of S through the values of table vs
RECURSIVE ReachNames(_, _, _)
ReachNames(vs, S, T) == IF T = S THEN S ELSE ReachNames(vs, T, RefsFrom(vs, T))

\* S and the defined names whose value refers to a name of S
RefsTo(vs, S) == S \cup {m \in DOMAIN vs : RefNames(vs[m]) \cap S # {}}

\* the names from which a name of S is reachable
RECURSIVE ReachingNames(_, _, _)
ReachingNames(vs, S, T) == IF T = S THEN S ELSE ReachingNames(vs, T, RefsTo(vs, T))

\* n is defined and its value leads back to n
OnCycle(vs, n) ==
    /\ n \in DOMAIN vs
    /\ n \in ReachNames(vs, RefNames(vs[n]), RefsFrom(vs, RefNames(vs[n])))

\* the names n reaches and is reached from: the cycle (or cycles) n is on
CycleOf(vs, n) ==
    ReachNames(vs, {n}, RefsFrom(vs, {n})) \cap ReachingNames(vs, {n}, RefsTo(vs, {n}))

\* a top-level call has returned
Returned == frames = <<>> /\ calls_made > 0

\* the result names a variable of n's cycle as unexpanded and shows it as ${NAME}
ClosingNameMarked(n) ==
    \E m \in CycleOf(self_variables, n) :
        /\ m \in returned.unexpanded_vars
        /\ Contains(returned.expanded, Braced(m))

\* the names that wait for the expansion of their value are pairwise distinct
NoNameReentered ==
    \A i, j \in 1..(Len(frames) - 1) :
        i # j => frames[i].pending.var_name # frames[j].pending.var_name

\* a call that was made returns
ExpandTerminates == (frames # <<>>) ~> (frames = <<>>)

IsChain(len) ==
    /\ lines_read = len
    /\ VarName(len) \in DOMAIN variables
    /\ variables[VarName(len)] = <<"x">>
    /\ VarName(1) \in DOMAIN variables

FullyResolved(result) == result.expanded = <<"x">> /\ result.unexpanded_vars = {}

\* the innermost activation returns at once, its text untouched and unexpanded
ReturnsTextUnexpanded(f) ==
    /\ f.matches = <<>>
    /\ f.expanded = f.text
    /\ f.unexpanded_vars = {f.text}

LooksUp ==
    /\ InLoop
    /\ ~IsAutomatic(TopFrame, NextMatch)
    /\ NextMatch.var_name # <<"$">>

\* the step put value in place of the reference and went on in the same
\* activation
ReplacedBy(value) ==
    /\ Len(frames') = Len(frames)
    /\ frames'[Len(frames)].expanded = Splice(TopFrame.expanded, NextMatch, value)

\* the step added var_name to the activation's unexpanded_vars, or left them
MarkedUnexpanded(var_name) ==
    frames'[Len(frames)].unexpanded_vars = TopFrame.unexpanded_vars \cup {var_name}

UnexpandedUnchanged ==
    frames'[Len(frames)].unexpanded_vars = TopFrame.unexpanded_vars

\* C6 as stated: a reference to a NAME that is not in the Makefile's variable
\* table, not in the environment, not MAKE / MAKEFILE_LIST / CURDIR /
\* .DEFAULT_GOAL and not allow-listed adds NAME to unexpanded_vars and leaves
\* ${NAME} in the text; no value is substituted.
C6_UndefinedNames ==
    [][ ( /\ LooksUp
          /\ NextMatch.var_name \notin DOMAIN variables
          /\ NextMatch.var_name \notin DOMAIN environment
          /\ NextMatch.var_name \notin SpecialVariables
          /\ NextMatch.var_name \notin IntentionallyUndefined )
        => /\ ReplacedBy(Braced(NextMatch.var_name))
           /\ MarkedUnexpanded(NextMatch.var_name) ]_vars

\* the step started the expansion of the value the table holds for the name
ExpandsTableValue(var_name, table) ==
    /\ Len(frames') = Len(frames) + 1
    /\ frames'[Len(frames)].pending = NextMatch
    /\ frames'[Len(frames')].text = table[var_name]
    /\ frames'[Len(frames')].target_name = None

\* what the claimed precedence makes of a lookup of var_name, for a variable
\* table
PrecedenceFollowed(var_name, table) ==
    IF var_name \in DOMAIN table
    THEN IF "$" \in Range(table[var_name])
         THEN ExpandsTableValue(var_name, table)
         ELSE ReplacedBy(table[var_name]) /\ UnexpandedUnchanged
    ELSE IF var_name \in DOMAIN environment
    THEN ReplacedBy(environment[var_name]) /\ UnexpandedUnchanged
    ELSE IF var_name = n_MAKE THEN ReplacedBy(w_make) /\ UnexpandedUnchanged
    ELSE IF var_name = n_MAKEFILE_LIST THEN ReplacedBy(w_Makefile) /\ UnexpandedUnchanged
    ELSE IF var_name = n_CURDIR THEN ReplacedBy(base_path) /\ UnexpandedUnchanged
    ELSE IF var_name = n_DEFAULT_GOAL THEN ReplacedBy(w_default) /\ UnexpandedUnchanged
    ELSE IF var_name \in IntentionallyUndefined
    THEN ReplacedBy(Braced(var_name)) /\ UnexpandedUnchanged
    ELSE TRUE

\* the expansion of a table value returned into the activation that asked for it
ValueReturned ==
    /\ Len(frames) >= 2
    /\ Len(frames') = Len(frames) - 1

\* the order of the lookup for a variable table
LookupOrder(table) ==
    /\ (LooksUp /\ NextMatch.var_name \notin recursion_stack)
          => PrecedenceFollowed(NextMatch.var_name, table)
    /\ ValueReturned =>
          frames'[Len(frames')].expanded =
             Splice(frames[Len(frames) - 1].expanded,
                    frames[Len(frames) - 1].pending, TopFrame.expanded)

\* C7: a lookup of a name that is not in progress takes the entry of the
\* Makefile's variable table (recursively expanded when it contains $) even if
\* the environment, the built-in set or the allow-list has the name; else the
\* environment's value even for a built-in or allow-listed name; else the
\* built-in value; else, for an allow-listed name, ${NAME} without adding it
\* to unexpanded_vars.
C7_LookupPrecedence == [][LookupOrder(variables)]_vars

\* the same order holds of the table the engine keeps, self.variables, which
\* is the Makefile's table and the entries _apply_conditional_defaults adds
LookupOrderOfEngineTable == [][LookupOrder(self_variables)]_vars

(***************************************************************************)
(* Properties of expansion: automatic variables, shell, and the cache      *)
(***************************************************************************)
\* the values of the two-character tokens for target T and dependencies D:
\* $@ is T, $< the first of D, $^ $? $+ the names of D joined by spaces, and
\* $* the stem of T
TokenValues(T, D) ==
    << AutoEntry(<<"$","@">>, T),
       AutoEntry(<<"$","<">>, IF D = <<>> THEN <<>> ELSE D[1]),
       AutoEntry(<<"$","^">>, Join(D, <<SP>>)),
       AutoEntry(<<"$","?">>, Join(D, <<SP>>)),
       AutoEntry(<<"$","+">>, Join(D, <<SP>>)),
       AutoEntry(<<"$","*">>, GetStem(T)) >>

\* text with every token of the original text replaced by its value, in one
\* scan from the left
RECURSIVE ReplaceTokens(_, _)
ReplaceTokens(text, values) ==
    IF text = <<>> THEN <<>>
    ELSE LET here == {k \in 1..Len(values) : StartsWith(text, values[k].var)}
         IN IF here = {} THEN <<Head(text)>> \o ReplaceTokens(Tail(text), values)
            ELSE LET k == CHOOSE x \in here : TRUE
                 IN values[k].value
                    \o ReplaceTokens(From(text, Len(values[k].var) + 1), values)

\* the automatic tokens with a documented value
DocumentedTokens ==
    { <<"$","@">>, <<"$","<">>, <<"$","^">>, <<"$","?">>, <<"$","+">>, <<"$","*">>,
      <<"$","(","@","D",")">>, <<"$","(","@","F",")">>,
      <<"$","(","<","D",")">>, <<"$","(","<","F",")">> }

\* the automatic tokens that occur in text
TokensIn(text) == {tok \in DocumentedTokens : Contains(text, tok)}

\* the texts whose automatic tokens are all two-character tokens
TwoCharacterTexts == {x_automatic, x_newer}

\* C8: a call expand(text, T, D) with a target context returns the text with
\* every $@ replaced by T, every $< by the first of D (empty if D is empty)
\* and every $^, $? and $+ by the names of D joined by single spaces, and its
\* automatic_vars_used is exactly the set of automatic tokens that occur in
\* the text; a call without target context returns the text with no token
\* replaced and an empty automatic_vars_used.
C8_AutomaticVariables ==
    (Returned /\ call.text \in AutomaticTexts)
    => IF call.target_name # None
       THEN /\ call.text \in TwoCharacterTexts
               => returned.expanded
                  = ReplaceTokens(call.text,
                                  TokenValues(call.target_name,
                                              DepsOrEmpty(call.dependencies)))
            /\ returned.automatic_vars_used = TokensIn(call.text)
       ELSE /\ returned.expanded = call.text
            /\ returned.automatic_vars_used = {}

\* "<shell:CMD>"
Placeholder(cmd) == <<"<">> \o w_shell \o <<":">> \o cmd \o <<">">>

w_ls == <<"l","s">>
w_echo == <<"e","c","h","o">>

\* what a reference to X inside a placeholder becomes when the references of
\* the text are expanded after its function calls
ValueOfX == GetVariableValue(n_X, self_variables, environment, {}).value

\* C9: nothing is run: the right-hand side of "X != ls" is stored as the raw
\* text "ls", and every $(shell CMD) call is replaced by the text
\* <shell:CMD>, whether written in the expanded text ($(shell ls), and
\* $(shell echo $(X)), whose command is "echo $(X)") or in the value of a
\* variable the text refers to (Y = $(shell ls)).
C9_ShellNeverRun ==
    /\ n_X \in DOMAIN variables => variables[n_X] = w_ls
    /\ (Returned /\ call.text = x_shell)
       => returned.expanded = Placeholder(w_ls)
    /\ (Returned /\ call.text = Ref(n_Y) /\ n_Y \in DOMAIN self_variables)
       => returned.expanded = Placeholder(w_ls)
    /\ (Returned /\ call.text = x_shell_nested)
       => returned.expanded \in { Placeholder(w_echo \o <<SP>> \o Ref(n_X)),
                                  Placeholder(w_echo \o <<SP>> \o ValueOfX) }

\* the triple of the call an activation serves
TripleOf(f) == Triple(f.text, f.target_name, DepsOrEmpty(f.dependencies))

\* C10: results are memoized per (text, target, dependency list) triple: an
\* activation of expand that returns a cache entry returns the entry stored by
\* a call with an equal triple, so calls with different triples (a missing
\* target and a target named None, or dependencies a:b and a, b) never share
\* an entry.
C10_MemoizedPerTriple ==
    \A i \in 1..Len(frames) :
        frames[i].status = "cached"
        => /\ cache_key(frames[i].text, frames[i].target_name, frames[i].dependencies)
              \in DOMAIN stored_by
           /\ stored_by[cache_key(frames[i].text, frames[i].target_name,
                                  frames[i].dependencies)]
              = TripleOf(frames[i])


(***************************************************************************)
(* Properties of _identify_deployment_targets                              *)
(***************************************************************************)
\* the targets whose lower-cased name contains one of the keywords
KeywordTargets(keywords) ==
    {n \in DOMAIN targets : \E k \in 1..Len(keywords) : Contains(Lower(n), keywords[k])}

\* position of the key n in the target map
KeyPosition(n) == CHOOSE i \in 1..Len(target_order) : target_order[i] = n

\* flow is what the claim prescribes as the flow list holding only the root
RootChosen(flow, has_target, exact, keywords) ==
    IF exact \in DOMAIN targets THEN flow = <<exact>>
    ELSE IF KeywordTargets(keywords) # {}
    THEN /\ Len(flow) = 1
         /\ flow[1] \in KeywordTargets(keywords)
         /\ \A m \in KeywordTargets(keywords) : KeyPosition(flow[1]) <= KeyPosition(m)
    ELSE flow = <<>> /\ ~has_target

\* the analysis ended without a flow of that kind
NoFlow(flow, has_target, exact, keywords) ==
    (exact \notin DOMAIN targets /\ KeywordTargets(keywords) = {})
        => (flow = <<>> /\ ~has_target)

ArgumentAliasedByInit(vs) == ApplyConditionalDefaults(vs)

\* the dict handed to VariableExpander(variables=...) after __init__, which
\* works on variables.copy()
ArgumentAfterInit(vs) == vs

\* analyze() reaches _analyze_variable_expansion: the engine is constructed on
\* analysis.variables and expand_all_targets(analysis.targets) is entered
AnalyzeVariableExpansion ==
    /\ flow_pc = "done"
    /\ variables' = ArgumentAfterInit(variables)
    /\ self_variables' = ApplyConditionalDefaults(variables)
    /\ environment' = EnvironmentOr(None)
    /\ expansion_cache' = EmptyMap
    /\ recursion_stack' = {}
    /\ frames' = <<>>
    /\ call' = None
    /\ returned' = None
    /\ calls_made' = 0
    /\ stored_by' = EmptyMap
    /\ batch' = Batch(1, 1, FALSE, EmptyTargetResults, EmptyMap)
    /\ flow_pc' = "expand_all"
    /\ UNCHANGED <<construction_vars, targets, target_order, pattern_rules, dep_lists, includes,
                   detected_tools, current_target, in_recipe, in_define,
                   define_var, conditional_stack, full_line, lines_read,
                   parse_fault, has_install_target, has_uninstall_target,
                   install_flow, uninstall_flow, trace_kind, trace_stack, visited,
                   variable_expansion_results, expansion_summary>>

\* the loop "for target_name, target in targets.items()" has a target to handle
InBatch == flow_pc = "expand_all" /\ batch.ti <= Len(target_order)

BatchName == target_order[batch.ti]

\* getattr(target, 'dependencies', []) and getattr(target, 'commands', [])
BatchDependencies == DepsOf(targets[BatchName])
BatchCommands == targets[BatchName].commands

\* the two inner loops run one after the other: item k is a dependency while
\* k <= Len(BatchDependencies) and a command after that
BatchInDependencies == batch.k <= Len(BatchDependencies)
BatchDone == batch.k > Len(BatchDependencies) + Len(BatchCommands)

\* the arguments of the expand() call for item k
BatchCall ==
    IF BatchInDependencies
    THEN Triple(BatchDependencies[batch.k], BatchName, NoDependencies)
    ELSE Triple(BatchCommands[batch.k - Len(BatchDependencies)], BatchName,
                batch.target_results.dependencies)

\* target_results[...].update(expanded....), four times
UpdateSets(tr, expanded) ==
    [tr EXCEPT !.variables_used = @ \cup expanded.variables_used,
               !.functions_used = @ \cup expanded.functions_used,
               !.automatic_vars_used = @ \cup expanded.automatic_vars_used,
               !.unexpanded_vars = @ \cup expanded.unexpanded_vars]

\* the body of the dependency loop after expand() returned
CollectDependency(tr, expanded) ==
    UpdateSets([tr EXCEPT !.dependencies = Append(@, expanded.expanded)], expanded)

\* the body of the command loop after expand() returned
CollectCommand(tr, command, expanded) ==
    UpdateSets([tr EXCEPT !.commands = Append(@,
                    [original |-> command, expanded |-> expanded.expanded,
                     variables_used |-> expanded.variables_used,
                     functions_used |-> expanded.functions_used,
                     automatic_vars_used |-> expanded.automatic_vars_used,
                     unexpanded_vars |-> expanded.unexpanded_vars])], expanded)

\* "expanded = self.expand(dep, target_name)" or
\* "expanded = self.expand(command, target_name, target_results['dependencies'])"
ExpandAllCall ==
    /\ InBatch
    /\ ~batch.waiting
    /\ ~BatchDone
    /\ frames = <<>>
    /\ frames' = <<EnterFrame(expansion_cache, recursion_stack, BatchCall.text,
                              BatchCall.target_name, BatchCall.dependencies)>>
    /\ call' = BatchCall
    /\ returned' = None
    /\ calls_made' = calls_made + 1
    /\ batch' = [batch EXCEPT !.waiting = TRUE]
    /\ UNCHANGED <<construction_vars, self_variables, environment, expansion_cache, recursion_stack,
                   stored_by, variable_expansion_results, expansion_summary,
                   parser_vars, flow_vars>>

\* the rest of the loop body once the call returned
ExpandAllCollect ==
    /\ InBatch
    /\ batch.waiting
    /\ frames = <<>>
    /\ batch' = [batch EXCEPT
                   !.waiting = FALSE,
                   !.k = @ + 1,
                   !.target_results =
                       IF BatchInDependencies
                       THEN CollectDependency(@, returned)
                       ELSE CollectCommand(@, call.text, returned)]
    /\ UNCHANGED <<construction_vars, variable_expansion_results, expansion_summary, parser_vars,
                   flow_vars, expander_vars>>

\* "results[target_name] = target_results" and the next target
ExpandAllStore ==
    /\ InBatch
    /\ ~batch.waiting
    /\ BatchDone
    /\ batch' = Batch(batch.ti + 1, 1, FALSE, EmptyTargetResults,
                      Put(batch.results, BatchName, batch.target_results))
    /\ UNCHANGED <<construction_vars, variable_expansion_results, expansion_summary, parser_vars,
                   flow_vars, expander_vars>>

\* get_expansion_summary()
GetExpansionSummary ==
    [total_expansions |-> Cardinality(DOMAIN expansion_cache),
     variables_used |->
        UNION {expansion_cache[key].variables_used : key \in DOMAIN expansion_cache},
     functions_used |->
        UNION {expansion_cache[key].functions_used : key \in DOMAIN expansion_cache},
     automatic_vars_used |->
        UNION {expansion_cache[key].automatic_vars_used : key \in DOMAIN expansion_cache},
     unexpanded_vars |->
        UNION {expansion_cache[key].unexpanded_vars : key \in DOMAIN expansion_cache},
     defined_variables |-> DOMAIN self_variables,
     available_env_vars |-> Cardinality(DOMAIN environment)]

\* expand_all_targets returns; the results and the summary are stored in the
\* analysis and analyze() returns it
ExpandAllReturn ==
    /\ flow_pc = "expand_all"
    /\ batch.ti > Len(target_order)
    /\ variable_expansion_results' = batch.results
    /\ expansion_summary' = GetExpansionSummary
    /\ flow_pc' = "analyzed"
    /\ UNCHANGED <<construction_vars, batch, has_install_target, has_uninstall_target, install_flow,
                   uninstall_flow, trace_kind, trace_stack, visited, parser_vars,
                   expander_vars>>

(***************************************************************************)
(* The whole of analyze() after the parse, on small Makefiles              *)
(***************************************************************************)
\* the variable assignments the analyzed Makefiles start with
AnalyzeVariableLines ==
    { <<>>,
      << Assign(n_A, op_plain, Ref(n_B)), Assign(n_B, op_plain, <<"x">>) >>,
      mk_circular,
      << Assign(n_REGION, op_plain, <<"e","u">>) >> }

\* their target names, in definition order
AnalyzeOrders == { <<w_install, n_check>>, <<w_deploy, w_remove>>, <<n_check>> }

\* the dependency lists and the recipes of their rules
AnalyzeDeps == { <<>>, <<n_check>>, <<Ref(n_A)>> }

AnalyzeRecipes ==
    { <<>>,
      << <<TAB>> \o w_helm \o <<SP>> \o w_install \o <<SP>> \o Ref(n_A) \o <<SP, "$", "@">> >>,
      << <<TAB>> \o w_echo \o <<SP, "$", "<", SP>> \o Ref(n_REGION) >> }

\* the rule lines "name_i: deps_i", each followed by its recipe
RECURSIVE RecipeFile(_, _, _, _)
RecipeFile(order, deps, recipes, i) ==
    IF i > Len(order) THEN <<>>
    ELSE <<Rule(order[i], <<":">>, Join(deps[i], <<SP>>))>> \o recipes[i]
            \o RecipeFile(order, deps, recipes, i + 1)

AnalyzeFiles ==
    { vs \o RecipeFile(order, deps, recipes, 1) :
        vs \in AnalyzeVariableLines,
        order \in {o \in AnalyzeOrders : Len(o) = 1},
        deps \in [1..1 -> AnalyzeDeps],
        recipes \in [1..1 -> AnalyzeRecipes] }
    \cup
    { vs \o RecipeFile(order, deps, recipes, 1) :
        vs \in AnalyzeVariableLines,
        order \in {o \in AnalyzeOrders : Len(o) = 2},
        deps \in [1..2 -> AnalyzeDeps],
        recipes \in [1..2 -> AnalyzeRecipes] }

\* _parse_makefile has returned
AnalyzeInit ==
    /\ \E file \in AnalyzeFiles :
          /\ ParserIs(ParseAll(FreshParser, file))
          /\ full_line = file[Len(file)]
          /\ lines_read = Len(file)
    /\ has_install_target = FALSE
    /\ has_uninstall_target = FALSE
    /\ install_flow = <<>>
    /\ uninstall_flow = <<>>
    /\ flow_pc = "identify"
    /\ trace_kind = "none"
    /\ trace_stack = <<>>
    /\ visited = {}
    /\ ExpanderIdle
    /\ BatchIdle

AnalyzeNext ==
    \/ IdentifyDeploymentTargets
    \/ TraceInstallFlow
    \/ TraceUninstallFlow
    \/ TraceEnter
    \/ TraceLoop
    \/ TraceReturn
    \/ AnalyzeVariableExpansion
    \/ ExpandAllCall
    \/ ExpandVariableReference
    \/ ExpandValue
    \/ ExpandReturn
    \/ ExpandAllCollect
    \/ ExpandAllStore
    \/ ExpandAllReturn

AnalyzeSpec == AnalyzeInit /\ [][AnalyzeNext]_vars

(***************************************************************************)
(* Properties of analyze() after the parse                                 *)
(***************************************************************************)
\* C17: once parsing has finished, no step of identifying the deployment
\* targets, tracing the flows, constructing the engine, expand and
\* expand_all_targets changes the target map, a field of a Target, the pattern
\* rules, the variable table of the analysis, its includes or detected tools.
C17_AnalysisReadOnly == [][UNCHANGED analysis_vars]_vars

\* C17 witness: analyze() is through: a flow was traced, the engine's table got
\* defaults the analysis table does not have, a result is cached and stored
C17_Witness ==
    /\ flow_pc = "analyzed"
    /\ install_flow # <<>>
    /\ n_REGION \in DOMAIN self_variables \ DOMAIN variables
    /\ n_A \in DOMAIN variables
    /\ DOMAIN expansion_cache # {}
    /\ DOMAIN variable_expansion_results = DOMAIN targets
    /\ \E n \in DOMAIN targets : targets[n].commands # <<>>

(***************************************************************************)
(* Properties of memoization and of the recursion stack                    *)
(***************************************************************************)
\* a call of expand() run to its return on an engine whose cache is cache and
\* whose names in progress are stack: the value the outermost activation of
\* fr returns
RECURSIVE RunToReturn(_, _, _)
RunToReturn(fr, cache, stack) ==
    LET top == fr[Len(fr)]
        below == SubSeq(fr, 1, Len(fr) - 1)
        m == top.matches[Len(top.matches)]
    IN IF top.status # "running" \/ top.matches = <<>>
       THEN LET stored == IF top.status = "running"
                          THEN Put(cache,
                                   cache_key(top.text, top.target_name, top.dependencies),
                                   ResultOf(top))
                          ELSE cache
            IN IF Len(fr) = 1 THEN ResultOf(top)
               ELSE RunToReturn(
                        Append(ButLast(below),
                               AfterExpansion(below[Len(below)], ResultOf(top))),
                        stored,
                        stack \ {below[Len(below)].pending.var_name})
       ELSE IF IsAutomatic(top, m)
       THEN RunToReturn(Append(below, [top EXCEPT !.matches = ButLast(top.matches)]),
                        cache, stack)
       ELSE IF ~NeedsExpansion(m.var_name, self_variables, stack)
       THEN RunToReturn(
                Append(below,
                       AfterLookup(top, m, GetVariableValue(m.var_name, self_variables,
                                                            environment, stack))),
                cache, stack)
       ELSE RunToReturn(
                Append(Append(below, Waiting(top, m)),
                       EnterFrame(cache, stack \cup {m.var_name},
                                  self_variables[m.var_name], None, NoDependencies)),
                cache, stack \cup {m.var_name})

\* expand(text, target_name, dependencies) as the first call on a fresh engine
\* built on the same variable table and environment
FreshExpand(c) ==
    RunToReturn(<<EnterFrame(EmptyMap, {}, c.text, c.target_name, c.dependencies)>>,
                EmptyMap, {})

\* C25: every top-level expand call on an engine returns the expanded text and
\* the unexpanded_vars that the same call returns on a fresh engine with an
\* empty cache, whatever calls the engine served before.
C25_MemoizationTransparent ==
    Returned
    => LET fresh == CHOOSE r \in {FreshExpand(call)} : TRUE
       IN /\ returned.expanded = fresh.expanded
          /\ returned.unexpanded_vars = fresh.unexpanded_vars

\* the names whose value is being expanded: those the activations wait for
NamesInProgress == {frames[i].pending.var_name : i \in 1..(Len(frames) - 1)}

\* C26: recursion_stack holds exactly the names whose values are being
\* expanded, each by one activation; it is empty when no call is running, so
\* when a top-level call returns and when the next one starts.
C26_RecursionStackExact ==
    /\ recursion_stack = NamesInProgress
    /\ NoNameReentered
    /\ frames = <<>> => recursion_stack = {}
    /\ Len(frames) = 1 => recursion_stack = {}

\* C26 witness: the second call on an engine, a reference to A of the circular
\* table, ran through the values of A and B and returned; the set is empty
C26_Witness ==
    /\ Returned
    /\ calls_made = 2
    /\ call.text = Ref(n_A)
    /\ returned.variables_used = {n_A, n_B}
    /\ returned.unexpanded_vars = {n_A}
    /\ recursion_stack = {}

(***************************************************************************)
(* Properties of the order of a traced flow                                *)
(***************************************************************************)
\* the root of a flow is its last element
RootIsLast(flow, exact, keywords) ==
    LET root == FlowRoot(targets, Candidates(targets, target_order, keywords), exact, <<>>)
    IN flow # <<>> => /\ root # <<>>
                      /\ flow[Len(flow)] = root[1]

\* no target reachable from root reaches itself through its dependencies
Acyclic(root) ==
    \A n \in ReachClosure({root}) : n \notin ReachClosure(ConcreteDeps(n))

\* every listed target comes after each of its dependencies that is listed
ValidExecutionOrder(flow) ==
    \A i \in 1..Len(flow) :
        \A d \in ConcreteDeps(flow[i]) \cap Range(flow) :
            \E j \in 1..(i - 1) : flow[j] = d

\* a flow whose trace is over is a valid execution order if its graph is acyclic
TracedInOrder(flow) ==
    (flow # <<>> /\ Acyclic(flow[Len(flow)])) => ValidExecutionOrder(flow)

\* C27: the root of a flow is its last element at every moment of the
\* analysis, and a traced flow whose dependency graph has no cycle lists every
\* target after all of its listed dependencies, in whatever order the
\* dependencies are written on the rule lines.
C27_FlowOrder ==
    /\ RootIsLast(install_flow, w_install, INSTALL_KEYWORDS)
    /\ RootIsLast(uninstall_flow, w_uninstall, UNINSTALL_KEYWORDS)
    /\ InstallTraced => TracedInOrder(install_flow)
    /\ flow_pc = "done" => TracedInOrder(uninstall_flow)

\* C27 witness: install names deploy before check and deploy needs check; the
\* trace is over and check, inserted last, stands first
C27_Witness ==
    /\ flow_pc = "done"
    /\ w_install \in DOMAIN targets /\ w_deploy \in DOMAIN targets
    /\ DepsOf(targets[w_install]) = <<w_deploy, n_check>>
    /\ DepsOf(targets[w_deploy]) = <<n_check>>
    /\ Acyclic(w_install)
    /\ install_flow = <<n_check, w_deploy, w_install>>

(***************************************************************************)
(* Properties of the roots of the two flows                                *)
(***************************************************************************)
\* the targets whose name holds an install or an uninstall keyword
DeploymentLike ==
    KeywordTargets(INSTALL_KEYWORDS) \cup KeywordTargets(UNINSTALL_KEYWORDS)

\* C28: the two flows never have the same root, a target named uninstall or
\* undeploy is never the root of the install flow, and a Makefile whose only
\* deployment-like target is uninstall has has_install_target false and an
\* empty install_flow.
C28_DistinctRoots ==
    /\ (install_flow # <<>> /\ uninstall_flow # <<>>)
       => install_flow[Len(install_flow)] # uninstall_flow[Len(uninstall_flow)]
    /\ install_flow # <<>>
       => install_flow[Len(install_flow)] \notin {w_uninstall, w_undeploy}
    /\ DeploymentLike = {w_uninstall}
       => (~has_install_target /\ install_flow = <<>>)

(***************************************************************************)
(* Engines constructed with an environment snapshot                        *)
(***************************************************************************)
n_PATH == <<"P","A","T","H">>

\* os.environ of a process with another PATH and a HOME
other_environ ==
    Put(Put(EmptyMap, n_PATH, <<"/","o","p","t">>), n_HOME, <<"/","r","o","o","t">>)

ProcessEnvironments == <<os_environ, other_environ>>

\* the environment argument: none, an empty snapshot, and two snapshots
SuppliedEnvironments ==
    {NoArgument}
    \cup {Supplied(dict) :
             dict \in {EmptyMap, env_names, Put(env_names, n_PATH, <<"/","s","n","a","p">>)}}

x_path == <<"$","(","P","A","T","H",")"," ","$","(","H","O","M","E",")">>

SnapshotCalls ==
    {Triple(text, None, NoDependencies) : text \in {Ref(n_PATH), x_path, x_lookup, Ref(n_Y)}}

\* the analysis is finished and the engine is constructed by a process whose
\* environment is process, with the environment argument supplied
SnapshotInit ==
    /\ \E mk \in {<<>>, mk_circular, mk_precedence} :
          /\ ParserIs(ParseAll(FreshParser, mk))
          /\ full_line = IF mk = <<>> THEN None ELSE mk[Len(mk)]
          /\ lines_read = Len(mk)
    /\ \E k \in DOMAIN ProcessEnvironments : process_environment = ProcessEnvironments[k]
    /\ \E supplied \in SuppliedEnvironments : environment_argument = supplied
    /\ environment = IF environment_argument.given
                     THEN EnvironmentOr(environment_argument.dict)
                     ELSE EnvironmentOr(None)
    /\ self_variables = ApplyConditionalDefaults(variables)
    /\ has_install_target = FALSE
    /\ has_uninstall_target = FALSE
    /\ install_flow = <<>>
    /\ uninstall_flow = <<>>
    /\ flow_pc = "expand"
    /\ trace_kind = "none"
    /\ trace_stack = <<>>
    /\ visited = {}
    /\ expansion_cache = EmptyMap
    /\ recursion_stack = {}
    /\ frames = <<>>
    /\ call = None
    /\ returned = None
    /\ calls_made = 0
    /\ stored_by = EmptyMap
    /\ BatchIdle

SnapshotNext ==
    \/ \E c \in SnapshotCalls : Expand(c)
    \/ ExpandVariableReference
    \/ ExpandValue
    \/ ExpandReturn

SnapshotSpec == SnapshotInit /\ [][SnapshotNext]_vars

\* an environment snapshot was supplied to the constructor
SnapshotSupplied == environment_argument.given

\* C30: when a snapshot is supplied, also an empty one, a reference to PATH,
\* a name of every process environment that is not in the variable table, is
\* resolved from the snapshot alone: it expands to the snapshot's value if the
\* snapshot has the name, and otherwise stays ${PATH} and is recorded as
\* unexpanded, whatever the process environment is.
C30_SnapshotOnly ==
    ( /\ SnapshotSupplied
      /\ Returned
      /\ call.text = Ref(n_PATH)
      /\ n_PATH \notin DOMAIN self_variables )
    => IF n_PATH \in DOMAIN environment_argument.dict
       THEN /\ returned.expanded = environment_argument.dict[n_PATH]
            /\ returned.unexpanded_vars = {}
       ELSE /\ returned.expanded = Braced(n_PATH)
            /\ returned.unexpanded_vars = {n_PATH}

====
